---- MODULE Spec2Model ----
(***************************************************************************)
(* Model of the hazard-proximity-grid cell (HPCell) of jagua-rs:           *)
(* jaguars/src/collision_detection/haz_prox_grid/hp_cell.rs.               *)
(*                                                                         *)
(* One HPCell is driven by a caller that invokes HPCell::new,              *)
(* register_hazard, register_hazards, deregister_hazards and value_loss    *)
(* with arbitrary arguments and then observes the result.                  *)
(*                                                                         *)
(* Geometry is exact: all coordinates are integers and every point, pole   *)
(* and polygon used lies so that each Euclidean distance taken is an       *)
(* integer (ISqrt fails otherwise).  f64 +infinity is the number F64_INF   *)
(* with saturating addition.                                               *)
(*                                                                         *)
(* The module also models DTransformation                                  *)
(* (jagua-rs/src/geometry/d_transformation.rs, specification SpecDT), the  *)
(* strip packing problem SPProblem                                         *)
(* (jaguars/src/entities/problems/strip_packing.rs, specification SpecSP)  *)
(* and the clones of an HPCell and of an SPProblem (specification          *)
(* SpecClone); specification SpecOrder calls register_hazards with the     *)
(* same hazards in every order.  Each specification leaves the variables   *)
(* of the others as they are initially.                                    *)
(***************************************************************************)
EXTENDS Integers, Sequences, FiniteSets, TLC

\* Number of distinct PlacedItem hazards the caller may register.
NItems == 3

\* crate::N_QUALITIES (size of qz_haz_prox).
N_QUALITIES == 10

\* The f64 value +infinity (distance_from_border of Proximity::default()).
F64_INF == 1000000

Interior == "Interior"
Exterior == "Exterior"

-----------------------------------------------------------------------------
(* f64 arithmetic on non-negative distances, +infinity absorbing.          *)

FAdd(a, b) == IF a >= F64_INF \/ b >= F64_INF THEN F64_INF ELSE a + b

Abs(x) == IF x < 0 THEN -x ELSE x

\* f64::sqrt on the perfect squares the model produces.
ISqrt(n) == CHOOSE r \in 0..64 : r * r = n

-----------------------------------------------------------------------------
(* Proximity: (position, |distance|) and its total order.                  *)

Proximity_new(pos, d) == [position |-> pos, distance_from_border |-> d]

Proximity_default == Proximity_new(Exterior, F64_INF)

\* Ord for Proximity: "Less" | "Equal" | "Greater".
Proximity_cmp(a, b) ==
    CASE a.position = Interior /\ b.position = Interior ->
            IF a.distance_from_border > b.distance_from_border THEN "Less"
            ELSE IF a.distance_from_border < b.distance_from_border THEN "Greater"
            ELSE "Equal"
      [] a.position = Exterior /\ b.position = Exterior ->
            IF a.distance_from_border < b.distance_from_border THEN "Less"
            ELSE IF a.distance_from_border > b.distance_from_border THEN "Greater"
            ELSE "Equal"
      [] a.position = Interior /\ b.position = Exterior -> "Less"
      [] OTHER -> "Greater"

Proximity_lt(a, b) == Proximity_cmp(a, b) = "Less"

Proximity_le(a, b) == Proximity_cmp(a, b) # "Greater"

\* Ord::min
Proximity_min(a, b) == IF Proximity_lt(b, a) THEN b ELSE a

-----------------------------------------------------------------------------
(* Geometric primitives.                                                   *)

Point(x, y) == [x |-> x, y |-> y]

Circle(cx, cy, r) == [center |-> Point(cx, cy), radius |-> r]

AARectangle(x_min, y_min, x_max, y_max) ==
    [x_min |-> x_min, y_min |-> y_min, x_max |-> x_max, y_max |-> y_max]

AARectangle_centroid(b) == Point((b.x_min + b.x_max) \div 2, (b.y_min + b.y_max) \div 2)

AARectangle_width(b) == b.x_max - b.x_min

AARectangle_height(b) == b.y_max - b.y_min

Point_distance(p, q) == ISqrt((p.x - q.x) * (p.x - q.x) + (p.y - q.y) * (p.y - q.y))

\* Circle::distance_from_border: position of the point and its (signed
\* magnitude of the) distance to the circle's border.
Circle_distance_from_border(c, p) ==
    LET d == Point_distance(c.center, p)
    IN  IF d > c.radius
        THEN [pos |-> Exterior, dist |-> d - c.radius]
        ELSE [pos |-> Interior, dist |-> c.radius - d]

\* distance_from_border of a polygon, for the axis-aligned rectangular
\* polygons the static hazards of the model use.
Polygon_distance_from_border(s, p) ==
    LET inside == s.x_min <= p.x /\ p.x <= s.x_max /\ s.y_min <= p.y /\ p.y <= s.y_max
        Min2(a, b) == IF a < b THEN a ELSE b
        dx == IF p.x < s.x_min THEN s.x_min - p.x
              ELSE IF p.x > s.x_max THEN p.x - s.x_max ELSE 0
        dy == IF p.y < s.y_min THEN s.y_min - p.y
              ELSE IF p.y > s.y_max THEN p.y - s.y_max ELSE 0
    IN  IF inside
        THEN [pos |-> Interior,
              dist |-> Min2(Min2(p.x - s.x_min, s.x_max - p.x),
                            Min2(p.y - s.y_min, s.y_max - p.y))]
        ELSE [pos |-> Exterior, dist |-> ISqrt(dx * dx + dy * dy)]

-----------------------------------------------------------------------------
(* Hazard entities and hazards.                                            *)

BinOuter == [kind |-> "BinOuter", id |-> 0, quality |-> 0]

BinHole(i) == [kind |-> "BinHole", id |-> i, quality |-> 0]

QualityZoneInferior(q, i) == [kind |-> "QualityZoneInferior", id |-> i, quality |-> q]

PlacedItem(i) == [kind |-> "PlacedItem", id |-> i, quality |-> 0]

\* HazardEntity::presence
presence(e) == IF e.kind = "BinOuter" THEN Exterior ELSE Interior

\* Hazard = (entity, shape, active); the shape is looked up by entity.
Hazard(e, a) == [entity |-> e, active |-> a]

is_active(haz) == haz.active

\* Shapes of the static hazards (polygons), by entity.
shape(e) ==
    CASE e.kind = "BinOuter"                  -> AARectangle(-14, -16, 30, 24)
      [] e.kind = "BinHole" /\ e.id = 1       -> AARectangle(-4, 3, 2, 5)
      [] e.kind = "BinHole" /\ e.id = 2       -> AARectangle(8, 0, 10, 8)
      [] e.kind = "QualityZoneInferior" /\ e.id = 1 -> AARectangle(0, 0, 12, 8)
      [] e.kind = "QualityZoneInferior" /\ e.id = 2 -> AARectangle(5, 2, 13, 6)
      [] e.kind = "QualityZoneInferior" /\ e.id = 3 -> AARectangle(8, 3, 20, 5)
      [] OTHER                                -> AARectangle(15, 3, 17, 5)

\* Surrogates of the placed items: poles (descending radius) and the
\* bounding circle of the poles.
surrogate(e) ==
    CASE e.id = 1 -> [poles |-> << Circle(16, 4, 1) >>,
                      poles_bounding_circle |-> Circle(16, 4, 1)]
      [] e.id = 2 -> [poles |-> << Circle(-10, 4, 1) >>,
                      poles_bounding_circle |-> Circle(-10, 4, 2)]
      [] e.id = 3 -> [poles |-> << Circle(9, 4, 2), Circle(5, 4, 1) >>,
                      poles_bounding_circle |-> Circle(8, 4, 4)]
      [] e.id = 4 -> [poles |-> << Circle(6, 8, 2), Circle(6, 4, 1) >>,
                      poles_bounding_circle |-> Circle(6, 8, 5)]
      [] OTHER    -> [poles |-> << Circle(6, 0, 3) >>,
                      poles_bounding_circle |-> Circle(6, 0, 3)]

-----------------------------------------------------------------------------
(* HPCell: pure functions of the cell value `self`.  A call that panics    *)
(* yields panic = TRUE and the cell as it stood when the panic was raised. *)

\* The HPCellUpdate values.
Affected == "Affected"
Unaffected == "Unaffected"
Boundary == "Boundary"

\* static_prox with the presence test inverted.
static_prox_inverted(centroid, hazard) ==
    LET pd == Polygon_distance_from_border(shape(hazard.entity), centroid)
    IN  IF pd.pos # presence(hazard.entity)
        THEN Proximity_new(Interior, pd.dist)
        ELSE Proximity_new(Exterior, pd.dist)

\* hazard.shape().distance_from_border(&centroid) turned into a Proximity
\* (HPCell::new, the `match pos == hazard.entity().presence()`).
static_prox(centroid, hazard) ==
    LET pd == Polygon_distance_from_border(shape(hazard.entity), centroid)
    IN  IF pd.pos = presence(hazard.entity)
        THEN Proximity_new(Interior, pd.dist)
        ELSE Proximity_new(Exterior, pd.dist)

\* The `for hazard in static_hazards` loop of HPCell::new, from index i on.
RECURSIVE new_loop(_, _, _, _, _)
new_loop(centroid, static_hazards, i, static_uni_haz_prox, qz_haz_prox) ==
    IF i > Len(static_hazards)
    THEN [panic |-> FALSE, static_uni_haz_prox |-> static_uni_haz_prox,
          qz_haz_prox |-> qz_haz_prox]
    ELSE
      LET hazard == static_hazards[i]
          prox == static_prox(centroid, hazard)
          e == hazard.entity
      IN  CASE e.kind \in {"BinOuter", "BinHole"} ->
                 new_loop(centroid, static_hazards, i + 1,
                          IF Proximity_lt(prox, static_uni_haz_prox[1])
                          THEN << prox, e >> ELSE static_uni_haz_prox,
                          qz_haz_prox)
            [] e.kind = "QualityZoneInferior" ->
                 new_loop(centroid, static_hazards, i + 1, static_uni_haz_prox,
                          [qz_haz_prox EXCEPT
                              ![e.quality] = Proximity_min(qz_haz_prox[e.quality], prox)])
            [] OTHER ->
                 [panic |-> TRUE, static_uni_haz_prox |-> static_uni_haz_prox,
                  qz_haz_prox |-> qz_haz_prox]

\* HPCell::new
HPCell_new(bbox, static_hazards) ==
    LET centroid == AARectangle_centroid(bbox)
        w2 == AARectangle_width(bbox) \div 2
        h2 == AARectangle_height(bbox) \div 2
        radius == ISqrt(w2 * w2 + h2 * h2)
        r == new_loop(centroid, static_hazards, 1,
                      << Proximity_default, BinOuter >>,
                      [q \in 0..(N_QUALITIES - 1) |-> Proximity_default])
    IN  [panic |-> r.panic,
         self  |-> [bbox |-> bbox,
                    centroid |-> centroid,
                    radius |-> radius,
                    uni_haz_prox |-> r.static_uni_haz_prox,
                    static_uni_haz_prox |-> r.static_uni_haz_prox,
                    qz_haz_prox |-> r.qz_haz_prox]]

\* HPCell::universal_hazard_proximity
universal_hazard_proximity(self) == self.uni_haz_prox

\* Iterator::min over a non-empty sequence of Proximity values.
RECURSIVE prox_seq_min(_, _, _)
prox_seq_min(ps, i, acc) ==
    IF i > Len(ps) THEN acc
    ELSE prox_seq_min(ps, i + 1, Proximity_min(acc, ps[i]))

\* distance_to_surrogate_poles_border
distance_to_surrogate_poles_border(hp_cell, poles) ==
    LET ps == [i \in 1..Len(poles) |->
                 LET pd == Circle_distance_from_border(poles[i], hp_cell.centroid)
                 IN  Proximity_new(pd.pos, Abs(pd.dist))]
    IN  prox_seq_min(ps, 2, ps[1])

\* register_hazard with the comparison reversed: a farther hazard replaces
\* the stored one.
register_hazard_greater(self, to_register) ==
    LET current_prox == universal_hazard_proximity(self)[1]
    IN  IF presence(to_register.entity) = Exterior
        THEN [panic |-> TRUE, self |-> self, ret |-> "panic"]
        ELSE
          LET haz_prox == distance_to_surrogate_poles_border(
                              self, surrogate(to_register.entity).poles)
          IN  IF Proximity_cmp(haz_prox, current_prox) = "Greater"
              THEN [panic |-> FALSE,
                    self  |-> [self EXCEPT
                                 !.uni_haz_prox = << haz_prox, to_register.entity >>],
                    ret   |-> Affected]
              ELSE IF haz_prox.distance_from_border >
                        FAdd(current_prox.distance_from_border, 2 * self.radius)
                   THEN [panic |-> FALSE, self |-> self, ret |-> Boundary]
                   ELSE [panic |-> FALSE, self |-> self, ret |-> Unaffected]

\* register_hazard with the boundary margin of one radius instead of two.
register_hazard_one_radius(self, to_register) ==
    LET current_prox == universal_hazard_proximity(self)[1]
    IN  IF presence(to_register.entity) = Exterior
        THEN [panic |-> TRUE, self |-> self, ret |-> "panic"]
        ELSE
          LET haz_prox == distance_to_surrogate_poles_border(
                              self, surrogate(to_register.entity).poles)
          IN  IF Proximity_cmp(haz_prox, current_prox) = "Less"
              THEN [panic |-> FALSE,
                    self  |-> [self EXCEPT
                                 !.uni_haz_prox = << haz_prox, to_register.entity >>],
                    ret   |-> Affected]
              ELSE IF haz_prox.distance_from_border >
                        FAdd(current_prox.distance_from_border, self.radius)
                   THEN [panic |-> FALSE, self |-> self, ret |-> Boundary]
                   ELSE [panic |-> FALSE, self |-> self, ret |-> Unaffected]

\* register_hazard that also takes over on a tie (`!= Greater` for `== Less`).
register_hazard_tie(self, to_register) ==
    LET current_prox == universal_hazard_proximity(self)[1]
    IN  IF presence(to_register.entity) = Exterior
        THEN [panic |-> TRUE, self |-> self, ret |-> "panic"]
        ELSE
          LET haz_prox == distance_to_surrogate_poles_border(
                              self, surrogate(to_register.entity).poles)
          IN  IF Proximity_cmp(haz_prox, current_prox) # "Greater"
              THEN [panic |-> FALSE,
                    self  |-> [self EXCEPT
                                 !.uni_haz_prox = << haz_prox, to_register.entity >>],
                    ret   |-> Affected]
              ELSE IF haz_prox.distance_from_border >
                        FAdd(current_prox.distance_from_border, 2 * self.radius)
                   THEN [panic |-> FALSE, self |-> self, ret |-> Boundary]
                   ELSE [panic |-> FALSE, self |-> self, ret |-> Unaffected]

\* HPCell::register_hazard
register_hazard(self, to_register) ==
    LET current_prox == universal_hazard_proximity(self)[1]
    IN  IF presence(to_register.entity) = Exterior
        THEN [panic |-> TRUE, self |-> self, ret |-> "panic"]
        ELSE
          LET haz_prox == distance_to_surrogate_poles_border(
                              self, surrogate(to_register.entity).poles)
          IN  IF Proximity_cmp(haz_prox, current_prox) = "Less"
              THEN [panic |-> FALSE,
                    self  |-> [self EXCEPT
                                 !.uni_haz_prox = << haz_prox, to_register.entity >>],
                    ret   |-> Affected]
              ELSE IF haz_prox.distance_from_border >
                        FAdd(current_prox.distance_from_border, 2 * self.radius)
                   THEN [panic |-> FALSE, self |-> self, ret |-> Boundary]
                   ELSE [panic |-> FALSE, self |-> self, ret |-> Unaffected]

\* Option<Proximity>
None == [some |-> FALSE, prox |-> Proximity_default]
Some(p) == [some |-> TRUE, prox |-> p]

\* None ordered after every Some.
Option_lt_none_last(a, b) ==
    IF ~b.some THEN a.some
    ELSE a.some /\ Proximity_lt(a.prox, b.prox)

\* Ord for Option<Proximity>: None is less than every Some.
Option_lt(a, b) ==
    IF ~a.some THEN b.some
    ELSE b.some /\ Proximity_lt(a.prox, b.prox)

\* bounding_pole_distances without the is_active filter.
bounding_pole_distances_no_filter(self, to_register) ==
    [i \in 1..Len(to_register) |->
       LET haz == to_register[i]
       IN  IF presence(haz.entity) = Exterior
           THEN [haz |-> haz, d |-> None]
           ELSE LET pd == Circle_distance_from_border(
                              surrogate(haz.entity).poles_bounding_circle,
                              self.centroid)
                IN  [haz |-> haz, d |-> Some(Proximity_new(pd.pos, Abs(pd.dist)))]]

\* The filter/map/collect that builds bounding_pole_distances.
bounding_pole_distances(self, to_register) ==
    LET act == SelectSeq(to_register, is_active)
    IN  [i \in 1..Len(act) |->
           LET haz == act[i]
           IN  IF presence(haz.entity) = Exterior
               THEN [haz |-> haz, d |-> None]
               ELSE LET pd == Circle_distance_from_border(
                                  surrogate(haz.entity).poles_bounding_circle,
                                  self.centroid)
                    IN  [haz |-> haz, d |-> Some(Proximity_new(pd.pos, Abs(pd.dist)))]]

\* The bounding-circle order forgotten: the last element is taken.
min_by_key_index_last(v) == Len(v)

\* The bounding-circle order forgotten: the first element is taken.
min_by_key_index_first(v) == 1

\* iter().enumerate().min_by_key(..): index of the first minimal element.
min_by_key_index(v) ==
    CHOOSE i \in 1..Len(v) :
        /\ \A j \in 1..Len(v) : ~Option_lt(v[j].d, v[i].d)
        /\ \A j \in 1..(i - 1) : Option_lt(v[i].d, v[j].d)

\* Vec::swap_remove
swap_remove(v, index) ==
    LET n == Len(v)
    IN  [i \in 1..(n - 1) |-> IF i = index THEN v[n] ELSE v[i]]

\* The `while !bounding_pole_distances.is_empty()` loop of register_hazards.
\* `left` is what remains in the vector when the loop ends.
RECURSIVE register_hazards_loop(_, _)
register_hazards_loop(self, v) ==
    IF Len(v) = 0
    THEN [panic |-> FALSE, self |-> self, left |-> v]
    ELSE
      LET index == min_by_key_index(v)
          to_register == v[index].haz
          bounding_proximity == v[index].d
          current_proximity == universal_hazard_proximity(self)[1]
      IN  IF ~bounding_proximity.some
          THEN LET r == register_hazard(self, to_register)
               IN  IF r.panic
                   THEN [panic |-> TRUE, self |-> r.self, left |-> v]
                   ELSE register_hazards_loop(r.self, swap_remove(v, index))
          ELSE IF Proximity_le(bounding_proximity.prox, current_proximity)
               THEN LET r == register_hazard(self, to_register)
                    IN  IF r.panic
                        THEN [panic |-> TRUE, self |-> r.self, left |-> v]
                        ELSE register_hazards_loop(r.self, swap_remove(v, index))
               ELSE [panic |-> FALSE, self |-> self, left |-> v]

\* HPCell::register_hazards
register_hazards(self, to_register) ==
    register_hazards_loop(self, bounding_pole_distances(self, to_register))

\* deregister_hazards with the reset assignment reversed.
deregister_hazards_reversed(self, to_deregister, remaining) ==
    IF self.uni_haz_prox[2] \in to_deregister
    THEN LET reset == [self EXCEPT !.static_uni_haz_prox = self.uni_haz_prox]
             r == register_hazards(reset, remaining)
         IN  [panic |-> r.panic, self |-> r.self,
              ret |-> IF r.panic THEN "panic" ELSE Affected]
    ELSE [panic |-> FALSE, self |-> self, ret |-> Unaffected]

\* deregister_hazards without the reset to the static baseline.
deregister_hazards_no_reset(self, to_deregister, remaining) ==
    IF self.uni_haz_prox[2] \in to_deregister
    THEN LET r == register_hazards(self, remaining)
         IN  [panic |-> r.panic, self |-> r.self,
              ret |-> IF r.panic THEN "panic" ELSE Affected]
    ELSE [panic |-> FALSE, self |-> self, ret |-> Unaffected]

\* HPCell::deregister_hazards; to_deregister is the set of entities the
\* iterator yields.
deregister_hazards(self, to_deregister, remaining) ==
    IF self.uni_haz_prox[2] \in to_deregister
    THEN LET reset == [self EXCEPT !.uni_haz_prox = self.static_uni_haz_prox]
             r == register_hazards(reset, remaining)
         IN  [panic |-> r.panic, self |-> r.self,
              ret |-> IF r.panic THEN "panic" ELSE Affected]
    ELSE [panic |-> FALSE, self |-> self, ret |-> Unaffected]

-----------------------------------------------------------------------------
(* f64 cell values.  A value is kept exactly as N_QUALITIES times itself   *)
(* (field n), so that the factor quality / N_QUALITIES stays an integer;   *)
(* k tells a finite value from +infinity, -infinity and NaN.               *)

F64(k, n) == [k |-> k, n |-> n]

\* f64 multiplication of distance^2 by the quality correction factor
\* num / N_QUALITIES.
F64_value(d, num) ==
    IF d >= F64_INF
    THEN IF num = 0 THEN F64("nan", 0) ELSE F64("inf", 0)
    ELSE F64("fin", d * d * num)

\* f64 subtraction
F64_sub(a, b) ==
    CASE a.k = "nan" \/ b.k = "nan" -> F64("nan", 0)
      [] a.k = "fin" /\ b.k = "fin" -> F64("fin", a.n - b.n)
      [] a.k = "fin" /\ b.k = "inf" -> F64("ninf", 0)
      [] a.k = "fin" /\ b.k = "ninf" -> F64("inf", 0)
      [] a.k = b.k -> F64("nan", 0)
      [] OTHER -> F64(a.k, 0)

\* Option<f64>
NoneF64 == [some |-> FALSE, v |-> F64("fin", 0)]
SomeF64(x) == [some |-> TRUE, v |-> x]

\* calculate_value that takes the last Interior quality instead of the first.
calculate_value_last(uni_haz_prox_0, qz_prox) ==
    LET in_qz == {q \in DOMAIN qz_prox : qz_prox[q].position = Interior}
        num == IF in_qz = {} THEN N_QUALITIES
               ELSE CHOOSE q \in in_qz : \A q2 \in in_qz : q >= q2
    IN  F64_value(uni_haz_prox_0.distance_from_border, num)

\* HPCell::calculate_value
calculate_value(uni_haz_prox_0, qz_prox) ==
    LET in_qz == {q \in DOMAIN qz_prox : qz_prox[q].position = Interior}
        num == IF in_qz = {} THEN N_QUALITIES
               ELSE CHOOSE q \in in_qz : \A q2 \in in_qz : q <= q2
    IN  F64_value(uni_haz_prox_0.distance_from_border, num)

\* HPCell::value
value(self) == calculate_value(self.uni_haz_prox[1], self.qz_haz_prox)

\* value_loss that also counts a tie as closer.
value_loss_tie(self, new_hazard_proximity) ==
    IF Proximity_cmp(new_hazard_proximity, self.uni_haz_prox[1]) # "Greater"
    THEN [val |-> SomeF64(F64_sub(value(self),
                                  calculate_value(new_hazard_proximity, self.qz_haz_prox))),
          ret |-> Affected]
    ELSE IF new_hazard_proximity.distance_from_border >
              FAdd(self.uni_haz_prox[1].distance_from_border, 2 * self.radius)
         THEN [val |-> NoneF64, ret |-> Boundary]
         ELSE [val |-> NoneF64, ret |-> Unaffected]

\* HPCell::value_loss
value_loss(self, new_hazard_proximity) ==
    IF Proximity_cmp(new_hazard_proximity, self.uni_haz_prox[1]) = "Less"
    THEN [val |-> SomeF64(F64_sub(value(self),
                                  calculate_value(new_hazard_proximity, self.qz_haz_prox))),
          ret |-> Affected]
    ELSE IF new_hazard_proximity.distance_from_border >
              FAdd(self.uni_haz_prox[1].distance_from_border, 2 * self.radius)
         THEN [val |-> NoneF64, ret |-> Boundary]
         ELSE [val |-> NoneF64, ret |-> Unaffected]

-----------------------------------------------------------------------------
(* The arguments the caller draws from.                                    *)

\* Two horizontally adjacent grid cells of width 6 and height 8 (radius 5).
GridBBoxes == {AARectangle(0, 0, 6, 8), AARectangle(6, 0, 12, 8)}

\* The static hazard lists HPCell::new is called with; the last one holds a
\* PlacedItem.
StaticHazardLists ==
    { << >>,
      << Hazard(BinOuter, TRUE) >>,
      << Hazard(BinOuter, TRUE), Hazard(BinHole(1), TRUE) >>,
      << Hazard(BinHole(2), TRUE), Hazard(BinOuter, TRUE),
         Hazard(QualityZoneInferior(3, 1), TRUE), Hazard(QualityZoneInferior(3, 2), TRUE) >>,
      << Hazard(QualityZoneInferior(3, 2), TRUE), Hazard(QualityZoneInferior(0, 3), TRUE),
         Hazard(BinOuter, TRUE) >>,
      << Hazard(BinOuter, TRUE), Hazard(PlacedItem(1), TRUE) >> }

ItemEntities == {PlacedItem(i) : i \in 1..NItems}

\* Entities of the hazards passed to the register calls: the placed items
\* and one with Exterior presence.
DynEntities == ItemEntities \cup {BinOuter}

Hazards == {Hazard(e, a) : e \in DynEntities, a \in BOOLEAN}

ActiveItemHazards == {Hazard(e, TRUE) : e \in ItemEntities}

\* Iterators of hazards (as sequences, in iteration order) for register_hazards.
Iterators ==
    { << >> }
    \cup {<< h >> : h \in Hazards}
    \cup {p \in Hazards \X Hazards : p[1].entity # p[2].entity}
    \cup {p \in ActiveItemHazards \X ActiveItemHazards \X ActiveItemHazards :
              p[1] # p[2] /\ p[1] # p[3] /\ p[2] # p[3]}

\* The `remaining` iterators of deregister_hazards.
Remainings ==
    { << >> }
    \cup {<< h >> : h \in Hazards}
    \cup {p \in ActiveItemHazards \X ActiveItemHazards : p[1] # p[2]}

\* The `to_deregister` sets of deregister_hazards.
DeregisterSets ==
    {{e} : e \in DynEntities \cup {BinHole(1)}} \cup {{}, ItemEntities}

\* The proximities value_loss is called with.
NewProximities ==
    {Proximity_new(pos, d) : pos \in {Interior, Exterior}, d \in {0, 1, 2, 6, 12, 18}}
    \cup {Proximity_default}

\* The active hazards an iterator yields, and their entities.
ActiveHazards(it) == {it[i] : i \in {j \in 1..Len(it) : it[j].active}}

ActiveEntities(it) == {h.entity : h \in ActiveHazards(it)}

-----------------------------------------------------------------------------
(* DTransformation (d_transformation.rs).  Its f64 components are F64      *)
(* records whose field n is the number itself.                             *)

\* NotNan::new: Err for NaN, Ok(x) otherwise.
NotNan_new(x) == [ok |-> x.k # "nan", v |-> x]

\* DTransformation::new that does not test translation.1.
DTransformation_new_two_checks(rotation, translation) ==
    LET r == NotNan_new(rotation)
        t0 == NotNan_new(translation[1])
    IN  [panic |-> ~(r.ok /\ t0.ok),
         self |-> [rotation |-> r.v, translation |-> << t0.v, translation[2] >>]]

\* DTransformation::new; each `expect` panics on Err.
DTransformation_new(rotation, translation) ==
    LET r == NotNan_new(rotation)
        t0 == NotNan_new(translation[1])
        t1 == NotNan_new(translation[2])
    IN  [panic |-> ~(r.ok /\ t0.ok /\ t1.ok),
         self |-> [rotation |-> r.v, translation |-> << t0.v, t1.v >>]]

\* DTransformation::empty
DTransformation_empty ==
    LET zero == F64("fin", 0)
    IN  [rotation |-> zero, translation |-> << zero, zero >>]

\* DTransformation::rotation
DTransformation_rotation(self) == self.rotation

\* DTransformation::translation
DTransformation_translation(self) == << self.translation[1], self.translation[2] >>

\* The f64 arguments DTransformation::new is called with.
F64Inputs ==
    {F64("nan", 0), F64("inf", 0), F64("ninf", 0)}
    \cup {F64("fin", n) : n \in {-2, 0, 1, 3}}

-----------------------------------------------------------------------------
(* Strip packing problem (strip_packing.rs).  Lengths are integers, shapes *)
(* are axis-aligned rectangles and items are translated only; the strip is *)
(* the rectangle (0, 0)-(width, height).                                   *)

\* f32::EPSILON.sqrt() as f64, the margin fit_strip_width leaves; it is the
\* smallest length of the model.
F32_EPSILON_SQRT == 1

\* SPInstance: the items (shape and quantity, item id = index - 1) and the
\* strip height.  Every item has a single pole and no hazard filter.
Instance ==
    [items |-> << [id |-> 0, shape |-> AARectangle(0, 0, 2, 2), qty |-> 2],
                  [id |-> 1, shape |-> AARectangle(0, 0, 4, 2), qty |-> 1] >>,
     strip_height |-> 4]

\* InstanceGeneric::item
item(instance, id) == instance.items[id + 1]

\* InstanceGeneric::item_qty
item_qty(instance, id) == instance.items[id + 1].qty

\* Item::shape().surrogate(): one pole, the largest circle around the
\* centre of the rectangle.
item_surrogate(it) ==
    LET s == it.shape
    IN  [poles |-> << Circle((s.x_min + s.x_max) \div 2, (s.y_min + s.y_max) \div 2,
                             (s.y_max - s.y_min) \div 2) >>]

\* DTransformation::compose, for rotation 0: the translation vector.
compose(d_transf) ==
    [tx |-> d_transf.translation[1].n, ty |-> d_transf.translation[2].n]

\* Transformable::transform_clone for a rectangle.
transform_clone(s, transf) ==
    AARectangle(s.x_min + transf.tx, s.y_min + transf.ty,
                s.x_max + transf.tx, s.y_max + transf.ty)

\* A pole under a transformation.
transform_circle(c, transf) ==
    Circle(c.center.x + transf.tx, c.center.y + transf.ty, c.radius)

\* PlacedItemUID
PlacedItemUID(item_id, d_transf) == [item_id |-> item_id, d_transf |-> d_transf]

\* PlacedItem::shape: the item's shape where it is placed.
placed_shape(instance, p_uid) ==
    transform_clone(item(instance, p_uid.item_id).shape, compose(p_uid.d_transf))

\* Bin::from_strip
Bin_from_strip(id, width, height) ==
    [id |-> id, outer |-> AARectangle(0, 0, width, height)]

\* Layout::new
Layout_new(id, bin) == [id |-> id, bin |-> bin, placed_items |-> << >>]

\* Layout::place_item
Layout_place_item(layout, it, d_transf) ==
    [layout EXCEPT !.placed_items = Append(@, PlacedItemUID(it.id, d_transf))]

\* Layout::remove_item removes the first placed item with the given uid;
\* it panics when no such item is placed.
Layout_remove_item(layout, p_uid) ==
    LET hits == {i \in 1..Len(layout.placed_items) : layout.placed_items[i] = p_uid}
        k == IF hits = {} THEN 0 ELSE CHOOSE i \in hits : \A i2 \in hits : i <= i2
    IN  IF k = 0 THEN [panic |-> TRUE, layout |-> layout]
        ELSE [panic |-> FALSE,
              layout |-> [layout EXCEPT !.placed_items =
                            SubSeq(layout.placed_items, 1, k - 1)
                            \o SubSeq(layout.placed_items, k + 1,
                                      Len(layout.placed_items))]]

\* Layout::create_layout_snapshot
Layout_create_layout_snapshot(layout) ==
    [id |-> layout.id, bin |-> layout.bin, placed_items |-> layout.placed_items]

\* Layout::restore.  Either it insists on the snapshot being of the same bin
\* (strict) or it takes the placed items over into the current bin.
Layout_restore(layout, snapshot, strict) ==
    IF strict /\ layout.bin.id # snapshot.bin.id
    THEN [panic |-> TRUE, layout |-> layout]
    ELSE [panic |-> FALSE,
          layout |-> [layout EXCEPT !.placed_items = snapshot.placed_items]]

\* The rectangle a lies strictly inside the rectangle b.
rect_strictly_inside(a, b) ==
    /\ b.x_min < a.x_min /\ a.x_max < b.x_max
    /\ b.y_min < a.y_min /\ a.y_max < b.y_max

\* The interiors of two rectangles meet.
rects_overlap(a, b) ==
    /\ a.x_min < b.x_max /\ b.x_min < a.x_max
    /\ a.y_min < b.y_max /\ b.y_min < a.y_max

\* The circle c lies strictly inside the rectangle b.
circle_strictly_inside(c, b) ==
    /\ b.x_min < c.center.x - c.radius /\ c.center.x + c.radius < b.x_max
    /\ b.y_min < c.center.y - c.radius /\ c.center.y + c.radius < b.y_max

\* The interior of the circle c meets the rectangle b.
circle_overlaps_rect(c, b) ==
    LET Max3(x, y, z) == IF x >= y /\ x >= z THEN x ELSE IF y >= z THEN y ELSE z
        dx == Max3(b.x_min - c.center.x, 0, c.center.x - b.x_max)
        dy == Max3(b.y_min - c.center.y, 0, c.center.y - b.y_max)
    IN  dx * dx + dy * dy < c.radius * c.radius

\* CDEngine::all_hazards of a layout: the strip's outside and every placed
\* item, as (entity, shape).
all_hazards(instance, layout) ==
    << [entity |-> BinOuter, shape |-> layout.bin.outer] >>
    \o [k \in 1..Len(layout.placed_items) |->
          [entity |-> PlacedItem(k),
           shape |-> placed_shape(instance, layout.placed_items[k])]]

\* The hazards a collision query looks at.
relevant_hazards(instance, layout, entities_to_ignore) ==
    LET hs == all_hazards(instance, layout)
    IN  {hs[k] : k \in {j \in 1..Len(hs) :
                          \A i \in 1..Len(entities_to_ignore) :
                              entities_to_ignore[i] # hs[j].entity}}

\* CDEngine::surrogate_collides: a transformed pole reaches outside the
\* strip or into a placed item.
surrogate_collides(instance, layout, surr, transf, entities_to_ignore) ==
    \E i \in 1..Len(surr.poles) :
        LET pole == transform_circle(surr.poles[i], transf)
        IN  \E h \in relevant_hazards(instance, layout, entities_to_ignore) :
                IF presence(h.entity) = Exterior
                THEN ~circle_strictly_inside(pole, h.shape)
                ELSE circle_overlaps_rect(pole, h.shape)

\* CDEngine::shape_collides: the transformed shape reaches outside the
\* strip or into a placed item.
shape_collides(instance, layout, transformed_shape, entities_to_ignore) ==
    \E h \in relevant_hazards(instance, layout, entities_to_ignore) :
        IF presence(h.entity) = Exterior
        THEN ~rect_strictly_inside(transformed_shape, h.shape)
        ELSE rects_overlap(transformed_shape, h.shape)

\* The quantities of the first n items, as a Vec.
RECURSIVE item_qtys(_, _)
item_qtys(instance, n) ==
    IF n = 0 THEN << >>
    ELSE Append(item_qtys(instance, n - 1), item_qty(instance, n - 1))

\* SPProblem::new
SPProblem_new(instance, strip_width) ==
    [instance |-> instance,
     layout |-> Layout_new(0, Bin_from_strip(0, strip_width, instance.strip_height)),
     strip_height |-> instance.strip_height,
     strip_width |-> strip_width,
     missing_item_qtys |-> item_qtys(instance, Len(instance.items)),
     solution_id_counter |-> 0]

\* ProblemGeneric::register_included_item
register_included_item(self, item_id) ==
    [self EXCEPT !.missing_item_qtys[item_id + 1] = @ - 1]

\* ProblemGeneric::unregister_included_item
unregister_included_item(self, item_id) ==
    [self EXCEPT !.missing_item_qtys[item_id + 1] = @ + 1]

\* LayoutIndex::Existing(0) and another index.
Existing0 == "Existing(0)"
Empty0 == "Empty(0)"

\* PlacingOption
PlacingOption(layout_index, item_id, d_transf) ==
    [layout_index |-> layout_index, item_id |-> item_id,
     transf |-> compose(d_transf), d_transf |-> d_transf]

\* place_item that does not count the item as included.
place_item_no_register(self, i_opt) ==
    IF i_opt.layout_index # Existing0
    THEN [panic |-> TRUE, self |-> self]
    ELSE [panic |-> FALSE,
          self |-> [self EXCEPT !.layout =
                      Layout_place_item(@, item(self.instance, i_opt.item_id),
                                        i_opt.d_transf)]]

\* SPProblem::place_item
place_item(self, i_opt) ==
    IF i_opt.layout_index # Existing0
    THEN [panic |-> TRUE, self |-> self]
    ELSE LET item_id == i_opt.item_id
             it == item(self.instance, item_id)
             placed == [self EXCEPT !.layout = Layout_place_item(@, it, i_opt.d_transf)]
         IN  [panic |-> FALSE, self |-> register_included_item(placed, item_id)]

\* SPProblem::remove_item
remove_item(self, layout_index, pi_uid) ==
    IF layout_index # Existing0
    THEN [panic |-> TRUE, self |-> self]
    ELSE LET r == Layout_remove_item(self.layout, pi_uid)
         IN  IF r.panic
             THEN [panic |-> TRUE, self |-> self]
             ELSE [panic |-> FALSE,
                   self |-> unregister_included_item([self EXCEPT !.layout = r.layout],
                                                     pi_uid.item_id)]

\* What modify_strip_width did for one old placement: the calls made, in
\* order, with what each returned, and the layout's items and the missing
\* quantities before and after.
Event(call, ret) == [call |-> call, ret |-> ret]
Digest(self) == [placed_items |-> self.layout.placed_items,
                 missing_item_qtys |-> self.missing_item_qtys]
Entry(p_uid, events, before, after) ==
    [p_uid |-> p_uid, events |-> events, before |-> Digest(before), after |-> Digest(after)]

\* The loop of modify_strip_width without the shape_collides test.
RECURSIVE modify_loop_no_shape(_, _, _, _)
modify_loop_no_shape(self, old_p_uids, k, log) ==
    IF k > Len(old_p_uids)
    THEN [self |-> self, log |-> log]
    ELSE
      LET p_uid == old_p_uids[k]
          it == item(self.instance, p_uid.item_id)
          entities_to_ignore == << >>
          transf == compose(p_uid.d_transf)
          sur == surrogate_collides(self.instance, self.layout, item_surrogate(it),
                                    transf, entities_to_ignore)
          insert_opt == PlacingOption(Existing0, p_uid.item_id, p_uid.d_transf)
      IN  IF ~sur
          THEN LET placed == place_item(self, insert_opt).self
               IN  modify_loop_no_shape(placed, old_p_uids, k + 1,
                       Append(log, Entry(p_uid,
                                         << Event("surrogate_collides", FALSE),
                                            Event("place_item", FALSE) >>,
                                         self, placed)))
          ELSE modify_loop_no_shape(self, old_p_uids, k + 1,
                       Append(log, Entry(p_uid, << Event("surrogate_collides", TRUE) >>,
                                         self, self)))

\* The `for p_uid in old_p_uids` loop of modify_strip_width, from index k on.
\* The items of the instance have no hazard filter, so entities_to_ignore is
\* empty.
RECURSIVE modify_loop(_, _, _, _)
modify_loop(self, old_p_uids, k, log) ==
    IF k > Len(old_p_uids)
    THEN [self |-> self, log |-> log]
    ELSE
      LET p_uid == old_p_uids[k]
          it == item(self.instance, p_uid.item_id)
          entities_to_ignore == << >>
          transf == compose(p_uid.d_transf)
          sur == surrogate_collides(self.instance, self.layout, item_surrogate(it),
                                    transf, entities_to_ignore)
          transformed_shape == transform_clone(it.shape, transf)
          shp == shape_collides(self.instance, self.layout, transformed_shape,
                                entities_to_ignore)
          insert_opt == PlacingOption(Existing0, p_uid.item_id, p_uid.d_transf)
      IN  IF ~sur
          THEN IF ~shp
               THEN LET placed == place_item(self, insert_opt).self
                    IN  modify_loop(placed, old_p_uids, k + 1,
                            Append(log, Entry(p_uid,
                                              << Event("surrogate_collides", FALSE),
                                                 Event("shape_collides", FALSE),
                                                 Event("place_item", FALSE) >>,
                                              self, placed)))
               ELSE modify_loop(self, old_p_uids, k + 1,
                            Append(log, Entry(p_uid,
                                              << Event("surrogate_collides", FALSE),
                                                 Event("shape_collides", TRUE) >>,
                                              self, self)))
          ELSE modify_loop(self, old_p_uids, k + 1,
                       Append(log, Entry(p_uid, << Event("surrogate_collides", TRUE) >>,
                                         self, self)))

\* modify_strip_width without the assignment to strip_width.
modify_strip_width_keep_width(self, new_width) ==
    LET old_p_uids == self.layout.placed_items
        reset == [self EXCEPT !.missing_item_qtys =
                    item_qtys(self.instance, Len(self.missing_item_qtys))]
        next_id == self.layout.id + 1
        fresh == [reset EXCEPT
                    !.layout = Layout_new(next_id,
                                   Bin_from_strip(next_id, new_width, self.strip_height))]
    IN  modify_loop(fresh, old_p_uids, 1, << >>)

\* SPProblem::modify_strip_width
modify_strip_width(self, new_width) ==
    LET old_p_uids == self.layout.placed_items
        reset == [self EXCEPT !.missing_item_qtys =
                    item_qtys(self.instance, Len(self.missing_item_qtys))]
        next_id == self.layout.id + 1
        fresh == [reset EXCEPT
                    !.layout = Layout_new(next_id,
                                   Bin_from_strip(next_id, new_width, self.strip_height)),
                    !.strip_width = new_width]
    IN  modify_loop(fresh, old_p_uids, 1, << >>)

\* SPProblem::fit_strip_width; the assert_eq at its end panics.
fit_strip_width(self) ==
    LET xs == {placed_shape(self.instance, self.layout.placed_items[k]).x_max :
                 k \in 1..Len(self.layout.placed_items)}
        max_x == IF xs = {} THEN 0 ELSE CHOOSE x \in xs : \A y \in xs : y <= x
        strip_width == max_x + F32_EPSILON_SQRT
        n_items_in_old_strip == Len(self.layout.placed_items)
        r == modify_strip_width(self, strip_width)
    IN  [panic |-> n_items_in_old_strip # Len(r.self.layout.placed_items),
         self |-> r.self, log |-> r.log]

\* usize holds 64 bits and the model's integers 31: `as usize` wraps a
\* negative number modulo USIZE_RANGE.
USIZE_RANGE == 1073741824

\* SPProblem::included_item_qtys
included_item_qtys(self) ==
    [i \in 1..Len(self.missing_item_qtys) |->
        (item_qty(self.instance, i - 1) - self.missing_item_qtys[i]) % USIZE_RANGE]

\* SPProblem::create_solution
create_solution(self) ==
    LET counted == [self EXCEPT !.solution_id_counter = @ + 1]
    IN  [self |-> counted,
         solution |-> [id |-> counted.solution_id_counter,
                       layout_snapshots |-> << Layout_create_layout_snapshot(self.layout) >>,
                       placed_item_qtys |-> included_item_qtys(self),
                       target_item_qtys |->
                           item_qtys(self.instance, Len(self.instance.items))]]

\* The for_each of restore_to_solution from index i on.  The subtraction is
\* one of usize: when it underflows the build with overflow checks panics
\* and the one without wraps, which `as isize` turns into the difference.
RECURSIVE restore_qtys(_, _, _, _)
restore_qtys(self, solution, i, overflow_checks) ==
    IF i > Len(self.missing_item_qtys)
    THEN [panic |-> FALSE, self |-> self]
    ELSE LET diff == item_qty(self.instance, i - 1) - solution.placed_item_qtys[i]
         IN  IF diff < 0 /\ overflow_checks
             THEN [panic |-> TRUE, self |-> self]
             ELSE restore_qtys([self EXCEPT !.missing_item_qtys[i] = diff],
                               solution, i + 1, overflow_checks)

\* SPProblem::restore_to_solution
restore_to_solution(self, solution, strict, overflow_checks) ==
    LET r == Layout_restore(self.layout, solution.layout_snapshots[1], strict)
    IN  IF r.panic
        THEN [panic |-> TRUE, self |-> self]
        ELSE restore_qtys([self EXCEPT !.layout = r.layout], solution, 1, overflow_checks)

-----------------------------------------------------------------------------
(* Clone (#[derive(Clone)] on HPCell and on SPProblem).  A binding holds a *)
(* struct by problem; a Vec and a Layout own their contents in the heap and  *)
(* the struct holds the address.                                           *)

\* The heap is the sequence of what was allocated, an address an index into
\* it; nothing is freed.  alloc puts v at a new address.
alloc(heap, v) == [heap |-> Append(heap, v), addr |-> Len(heap) + 1]

\* HPCell::clone: every field of the cell is held by problem.
HPCell_clone(self) ==
    [bbox |-> self.bbox,
     centroid |-> self.centroid,
     radius |-> self.radius,
     uni_haz_prox |-> self.uni_haz_prox,
     static_uni_haz_prox |-> self.static_uni_haz_prox,
     qz_haz_prox |-> self.qz_haz_prox]

\* Vec::clone: a new buffer with the same elements.
Vec_clone(heap, addr) == alloc(heap, heap[addr])

\* Layout::clone: a new Layout with the same bin and placed items.
Layout_clone(heap, addr) == alloc(heap, heap[addr])

\* The SPProblem `problem` as a struct whose layout and missing_item_qtys
\* are newly put in the heap.
SPProblem_boxed(heap, problem) ==
    LET l == alloc(heap, problem.layout)
        m == alloc(l.heap, problem.missing_item_qtys)
    IN  [heap |-> m.heap,
         self |-> [instance |-> problem.instance,
                   layout |-> l.addr,
                   strip_height |-> problem.strip_height,
                   strip_width |-> problem.strip_width,
                   missing_item_qtys |-> m.addr,
                   solution_id_counter |-> problem.solution_id_counter]]

\* The SPProblem the struct `self` stands for, read through its addresses.
SPProblem_deref(heap, self) ==
    [instance |-> self.instance,
     layout |-> heap[self.layout],
     strip_height |-> self.strip_height,
     strip_width |-> self.strip_width,
     missing_item_qtys |-> heap[self.missing_item_qtys],
     solution_id_counter |-> self.solution_id_counter]

\* A &mut self method has left `problem` in the struct `self`: the layout and
\* the quantities are written where the struct holds them.
SPProblem_assign(heap, self, problem) ==
    LET h1 == [heap EXCEPT ![self.layout] = problem.layout]
        h2 == [h1 EXCEPT ![self.missing_item_qtys] = problem.missing_item_qtys]
    IN  [heap |-> h2,
         self |-> [instance |-> problem.instance,
                   layout |-> self.layout,
                   strip_height |-> problem.strip_height,
                   strip_width |-> problem.strip_width,
                   missing_item_qtys |-> self.missing_item_qtys,
                   solution_id_counter |-> problem.solution_id_counter]]

\* A clone that hands out the Vec of the original instead of a new one.
SPProblem_clone_shared_vec(heap, self) ==
    LET l == Layout_clone(heap, self.layout)
    IN  [heap |-> l.heap,
         self |-> [instance |-> self.instance,
                   layout |-> l.addr,
                   strip_height |-> self.strip_height,
                   strip_width |-> self.strip_width,
                   missing_item_qtys |-> self.missing_item_qtys,
                   solution_id_counter |-> self.solution_id_counter]]

\* SPProblem::clone: every field is cloned in turn.
SPProblem_clone(heap, self) ==
    LET l == Layout_clone(heap, self.layout)
        m == Vec_clone(l.heap, self.missing_item_qtys)
    IN  [heap |-> m.heap,
         self |-> [instance |-> self.instance,
                   layout |-> l.addr,
                   strip_height |-> self.strip_height,
                   strip_width |-> self.strip_width,
                   missing_item_qtys |-> m.addr,
                   solution_id_counter |-> self.solution_id_counter]]

-----------------------------------------------------------------------------
(* State.                                                                  *)

VARIABLES
    bbox, centroid, radius,       \* HPCell fields
    uni_haz_prox,                 \* (Proximity, HazardEntity) as a pair
    static_uni_haz_prox,
    qz_haz_prox,                  \* [0..N_QUALITIES-1 -> Proximity]
    pc,                           \* caller: "idle" | "returned" | "panicked"
    last,                         \* the call just made: arguments, cell before, result
    built_from,                   \* the static hazard list the cell was built from
    reg,                          \* entities whose registration the cell reflects
    reg_active,                   \* every hazard registered one by one was active
    prev                          \* the call before `last`, when it registered a new hazard

VARIABLES
    dt,                           \* the last DTransformation constructor call and its result
    sp,                           \* the SPProblem
    sp_last,                      \* the last call on the SPProblem and what it did
    solution                      \* the Solution the caller holds, if any

VARIABLES
    objs,                         \* the bindings `original` and `clone` and the structs they hold
    heap,                         \* what the Vecs and Layouts of those structs own
    cl                            \* the last call made through one of the bindings

sp_vars == << sp, sp_last, solution >>

cl_vars == << objs, heap, cl >>

\* The variables outside the cell and its caller.
ext_vars == << dt, sp_vars, cl_vars >>

vars == << bbox, centroid, radius, uni_haz_prox, static_uni_haz_prox, qz_haz_prox,
           pc, last, built_from, reg, reg_active, prev, ext_vars >>

cell_vars == << bbox, centroid, radius, uni_haz_prox, static_uni_haz_prox, qz_haz_prox >>

\* The HPCell value held by the variables.
Self == [bbox |-> bbox, centroid |-> centroid, radius |-> radius,
         uni_haz_prox |-> uni_haz_prox,
         static_uni_haz_prox |-> static_uni_haz_prox,
         qz_haz_prox |-> qz_haz_prox]

\* Assigns the cell `c` to the primed variables.
SetSelf(c) ==
    /\ bbox' = c.bbox
    /\ centroid' = c.centroid
    /\ radius' = c.radius
    /\ uni_haz_prox' = c.uni_haz_prox
    /\ static_uni_haz_prox' = c.static_uni_haz_prox
    /\ qz_haz_prox' = c.qz_haz_prox

NoHazard == Hazard(BinOuter, FALSE)

NoPrev == [set |-> FALSE, haz |-> NoHazard, uni |-> << Proximity_default, BinOuter >>,
           reg |-> {}, active |-> FALSE]

\* The record of a call: its arguments, the cell before it (pre), what it
\* returned (ret, val) and, for register_hazards, the entities of the
\* hazards still in bounding_pole_distances when the loop ended (left).
Call(op, haz, it, dereg, prox, pre, ret, val, left) ==
    [op |-> op, haz |-> haz, iter |-> it, dereg |-> dereg, prox |-> prox,
     pre |-> pre, ret |-> ret, val |-> val, left |-> left]

\* No call is being observed.
NoCall == Call("none", NoHazard, << >>, {}, Proximity_default,
               HPCell_new(AARectangle(0, 0, 6, 8), << >>).self, "unit", NoneF64, {})

\* The record of a DTransformation constructor call.
DTCall(op, rotation, translation, r) ==
    [op |-> op, rotation |-> rotation, translation |-> translation,
     panic |-> r.panic, self |-> r.self]

\* No DTransformation has been constructed.
NoDT == DTCall("none", F64("fin", 0), << F64("fin", 0), F64("fin", 0) >>,
               [panic |-> FALSE, self |-> DTransformation_empty])

\* The width the strip starts with.
InitialStripWidth == 9

\* The record of a call on the SPProblem: whether it panicked and, for
\* modify_strip_width and fit_strip_width, what the loop did.
SPCall(op, panic, log) == [op |-> op, panic |-> panic, log |-> log]

\* The SPProblem is built and left alone.
SPFrozen ==
    /\ sp = SPProblem_new(Instance, InitialStripWidth)
    /\ sp_last = SPCall("new", FALSE, << >>)
    /\ solution = [set |-> FALSE]

\* The two bindings; a binding that holds nothing is Dead.
Bindings == {"original", "clone"}

Other(b) == IF b = "original" THEN "clone" ELSE "original"

Dead == [live |-> FALSE]

Live(kind, s) == [live |-> TRUE, kind |-> kind, s |-> s]

\* The record of a call through the binding `on`.
ClCall(op, on, panic) == [op |-> op, on |-> on, panic |-> panic]

\* No struct is bound and none is cloned.
ClFrozen ==
    /\ objs = [b \in Bindings |-> Dead]
    /\ heap = << >>
    /\ cl = ClCall("none", "original", FALSE)

\* Nothing happens outside the cell.
ExtFrozen == dt = NoDT /\ SPFrozen /\ ClFrozen

Init ==
    \E b \in GridBBoxes, l \in StaticHazardLists :
        LET r == HPCell_new(b, l)
        IN  /\ ~r.panic
            /\ bbox = r.self.bbox
            /\ centroid = r.self.centroid
            /\ radius = r.self.radius
            /\ uni_haz_prox = r.self.uni_haz_prox
            /\ static_uni_haz_prox = r.self.static_uni_haz_prox
            /\ qz_haz_prox = r.self.qz_haz_prox
            /\ pc = "returned"
            /\ last = Call("new", NoHazard, l, {}, Proximity_default, r.self,
                           "unit", NoneF64, {})
            /\ built_from = l
            /\ reg = {}
            /\ reg_active = TRUE
            /\ prev = NoPrev
            /\ ExtFrozen

\* The caller takes note of the result; the next call may follow.
Observe ==
    /\ UNCHANGED ext_vars
    /\ pc = "returned"
    /\ pc' = "idle"
    /\ prev' = IF last.op \in {"register_hazard", "value_loss"} THEN prev ELSE NoPrev
    /\ last' = NoCall
    /\ UNCHANGED << cell_vars, built_from, reg, reg_active >>

\* HPCell::new builds the cell anew; a panic leaves no new cell.
New(b, l) ==
    /\ UNCHANGED ext_vars
    /\ pc = "idle"
    /\ LET r == HPCell_new(b, l)
       IN  IF r.panic
           THEN /\ pc' = "panicked"
                /\ last' = Call("new", NoHazard, l, {}, Proximity_default, Self,
                                "panic", NoneF64, {})
                /\ UNCHANGED << cell_vars, built_from, reg, reg_active, prev >>
           ELSE /\ pc' = "returned"
                /\ SetSelf(r.self)
                /\ last' = Call("new", NoHazard, l, {}, Proximity_default, Self,
                                "unit", NoneF64, {})
                /\ built_from' = l
                /\ reg' = {}
                /\ reg_active' = TRUE
                /\ prev' = NoPrev

RegisterHazard(h) ==
    /\ UNCHANGED ext_vars
    /\ pc = "idle"
    /\ LET r == register_hazard(Self, h)
       IN  /\ pc' = IF r.panic THEN "panicked" ELSE "returned"
           /\ SetSelf(r.self)
           /\ last' = Call("register_hazard", h, << >>, {}, Proximity_default, Self,
                           r.ret, NoneF64, {})
           /\ reg' = IF r.panic THEN reg ELSE reg \cup {h.entity}
           /\ reg_active' = (reg_active /\ (r.panic \/ h.active))
           /\ prev' = IF ~r.panic /\ h.entity \notin reg
                      THEN [set |-> TRUE, haz |-> h, uni |-> uni_haz_prox, reg |-> reg,
                            active |-> reg_active /\ h.active]
                      ELSE NoPrev
           /\ UNCHANGED built_from

RegisterHazards(it) ==
    /\ UNCHANGED ext_vars
    /\ pc = "idle"
    /\ LET r == register_hazards(Self, it)
       IN  /\ pc' = IF r.panic THEN "panicked" ELSE "returned"
           /\ SetSelf(r.self)
           /\ last' = Call("register_hazards", NoHazard, it, {}, Proximity_default, Self,
                           IF r.panic THEN "panic" ELSE "unit", NoneF64,
                           {r.left[i].haz.entity : i \in 1..Len(r.left)})
           /\ reg' = IF r.panic THEN reg ELSE reg \cup ActiveEntities(it)
           /\ UNCHANGED << built_from, reg_active, prev >>

DeregisterHazards(d, it) ==
    /\ UNCHANGED ext_vars
    /\ pc = "idle"
    /\ LET r == deregister_hazards(Self, d, it)
       IN  /\ pc' = IF r.panic THEN "panicked" ELSE "returned"
           /\ SetSelf(r.self)
           /\ last' = Call("deregister_hazards", NoHazard, it, d, Proximity_default, Self,
                           r.ret, NoneF64, {})
           /\ reg' = CASE r.panic -> reg
                       [] r.ret = Affected -> ActiveEntities(it)
                       [] OTHER -> reg \ d
           /\ reg_active' = (reg_active \/ (~r.panic /\ r.ret = Affected))
           /\ UNCHANGED << built_from, prev >>

ValueLoss(p) ==
    /\ UNCHANGED ext_vars
    /\ pc = "idle"
    /\ LET r == value_loss(Self, p)
       IN  /\ pc' = "returned"
           /\ last' = Call("value_loss", NoHazard, << >>, {}, p, Self,
                           r.ret, r.val, {})
           /\ UNCHANGED << cell_vars, built_from, reg, reg_active, prev >>

\* HPCell::value
Value ==
    /\ UNCHANGED ext_vars
    /\ pc = "idle"
    /\ pc' = "returned"
    /\ last' = Call("value", NoHazard, << >>, {}, Proximity_default, Self,
                    "f64", SomeF64(value(Self)), {})
    /\ UNCHANGED << cell_vars, built_from, reg, reg_active, prev >>

Next ==
    \/ Observe
    \/ \E b \in GridBBoxes, l \in StaticHazardLists : New(b, l)
    \/ \E h \in Hazards : RegisterHazard(h)
    \/ \E it \in Iterators : RegisterHazards(it)
    \/ \E d \in DeregisterSets, it \in Remainings : DeregisterHazards(d, it)
    \/ \E p \in NewProximities : ValueLoss(p)
    \/ Value

Spec == Init /\ [][Next]_vars

-----------------------------------------------------------------------------
(* The DTransformation constructors, called with arbitrary f64 arguments.  *)

\* The cell is built once and left alone.
CellFrozen ==
    LET c == HPCell_new(AARectangle(0, 0, 6, 8), << >>).self
    IN  /\ bbox = c.bbox
        /\ centroid = c.centroid
        /\ radius = c.radius
        /\ uni_haz_prox = c.uni_haz_prox
        /\ static_uni_haz_prox = c.static_uni_haz_prox
        /\ qz_haz_prox = c.qz_haz_prox
        /\ pc = "idle"
        /\ last = NoCall
        /\ built_from = << >>
        /\ reg = {}
        /\ reg_active = TRUE
        /\ prev = NoPrev

hp_vars == << cell_vars, pc, last, built_from, reg, reg_active, prev >>

DTInit ==
    /\ CellFrozen
    /\ SPFrozen
    /\ ClFrozen
    /\ dt = NoDT

\* DTransformation::new(rotation, translation); a panic ends the run.
DTNew(rotation, translation) ==
    /\ ~dt.panic
    /\ dt' = DTCall("new", rotation, translation,
                    DTransformation_new(rotation, translation))
    /\ UNCHANGED << hp_vars, sp_vars, cl_vars >>

\* DTransformation::empty()
DTEmpty ==
    /\ ~dt.panic
    /\ dt' = DTCall("empty", F64("fin", 0), << F64("fin", 0), F64("fin", 0) >>,
                    [panic |-> FALSE, self |-> DTransformation_empty])
    /\ UNCHANGED << hp_vars, sp_vars, cl_vars >>

DTNext ==
    \/ \E r \in F64Inputs, t \in F64Inputs \X F64Inputs : DTNew(r, t)
    \/ DTEmpty

SpecDT == DTInit /\ [][DTNext]_vars

-----------------------------------------------------------------------------
(* register_hazards called with active placed items in every order.  The   *)
(* items 5 and 6 have the same surrogate, so that their bounding-circle    *)
(* proximities tie in every cell.                                          *)

OrderHazards == {Hazard(PlacedItem(i), TRUE) : i \in {1, 2, 3, 5, 6}}

\* The iterators of up to three distinct hazards, in every order.
OrderIterators ==
    { << >> }
    \cup {<< h >> : h \in OrderHazards}
    \cup {p \in OrderHazards \X OrderHazards : p[1] # p[2]}
    \cup {p \in OrderHazards \X OrderHazards \X OrderHazards :
              p[1] # p[2] /\ p[1] # p[3] /\ p[2] # p[3]}

OrderNext ==
    \/ Observe
    \/ \E it \in OrderIterators : RegisterHazards(it)

SpecOrder == Init /\ [][OrderNext]_vars

-----------------------------------------------------------------------------
(* The SPProblem, driven by a caller that places and removes items,        *)
(* changes and fits the strip width, and takes and restores a Solution.    *)

\* Caps on the number of placed items, of layouts built anew and of
\* solutions created.
MaxPlaced == 2
MaxLayoutId == 1
MaxSolutions == 1

\* The widths modify_strip_width is called with.
StripWidths == {5, 7}

\* The placements the caller asks for: item 0 at x = 1 and x = 4, item 1 at
\* x = 1, all at y = 1 and unrotated.
DTransformations ==
    {DTransformation_new(F64("fin", 0), << F64("fin", tx), F64("fin", 1) >>).self :
        tx \in {1, 4}}

PlacedItemUIDs ==
    {u \in {PlacedItemUID(id, d) : id \in 0..(Len(Instance.items) - 1),
                                   d \in DTransformations} :
        ~(u.item_id = 1 /\ u.d_transf.translation[1].n = 4)}

PlacingOptions ==
    {PlacingOption(Existing0, u.item_id, u.d_transf) : u \in PlacedItemUIDs}
    \cup {PlacingOption(Empty0, 0, DTransformation_empty)}

SPInit ==
    /\ CellFrozen
    /\ dt = NoDT
    /\ ClFrozen
    /\ SPFrozen

SPPlaceItem(i_opt) ==
    /\ ~sp_last.panic
    /\ Len(sp.layout.placed_items) < MaxPlaced
    /\ LET r == place_item(sp, i_opt)
       IN  /\ sp' = r.self
           /\ sp_last' = SPCall("place_item", r.panic, << >>)
    /\ UNCHANGED << hp_vars, dt, solution, cl_vars >>

SPRemoveItem(pi_uid) ==
    /\ ~sp_last.panic
    /\ LET r == remove_item(sp, Existing0, pi_uid)
       IN  /\ sp' = r.self
           /\ sp_last' = SPCall("remove_item", r.panic, << >>)
    /\ UNCHANGED << hp_vars, dt, solution, cl_vars >>

SPModifyStripWidth(new_width) ==
    /\ ~sp_last.panic
    /\ sp.layout.id < MaxLayoutId
    /\ LET r == modify_strip_width(sp, new_width)
       IN  /\ sp' = r.self
           /\ sp_last' = SPCall("modify_strip_width", FALSE, r.log)
    /\ UNCHANGED << hp_vars, dt, solution, cl_vars >>

SPFitStripWidth ==
    /\ ~sp_last.panic
    /\ sp.layout.id < MaxLayoutId
    /\ LET r == fit_strip_width(sp)
       IN  /\ sp' = r.self
           /\ sp_last' = SPCall("fit_strip_width", r.panic, r.log)
    /\ UNCHANGED << hp_vars, dt, solution, cl_vars >>

SPCreateSolution ==
    /\ ~sp_last.panic
    /\ sp.solution_id_counter < MaxSolutions
    /\ LET r == create_solution(sp)
       IN  /\ sp' = r.self
           /\ solution' = [set |-> TRUE, s |-> r.solution]
           /\ sp_last' = SPCall("create_solution", FALSE, << >>)
    /\ UNCHANGED << hp_vars, dt, cl_vars >>

\* restore_to_solution, in a build with or without overflow checks and
\* with either Layout::restore.
SPRestoreToSolution(strict, overflow_checks) ==
    /\ ~sp_last.panic
    /\ solution.set
    /\ LET r == restore_to_solution(sp, solution.s, strict, overflow_checks)
       IN  /\ sp' = r.self
           /\ sp_last' = SPCall("restore_to_solution", r.panic, << >>)
    /\ UNCHANGED << hp_vars, dt, solution, cl_vars >>

SPNext ==
    \/ \E i_opt \in PlacingOptions : SPPlaceItem(i_opt)
    \/ \E pi_uid \in PlacedItemUIDs : SPRemoveItem(pi_uid)
    \/ \E new_width \in StripWidths : SPModifyStripWidth(new_width)
    \/ SPFitStripWidth
    \/ SPCreateSolution
    \/ \E strict \in BOOLEAN, overflow_checks \in BOOLEAN :
          SPRestoreToSolution(strict, overflow_checks)

SpecSP == SPInit /\ [][SPNext]_vars

-----------------------------------------------------------------------------
(* Clone.  The caller builds an HPCell or an SPProblem, changes it, clones *)
(* it once and then changes either copy.                                   *)

\* What a caller can read of the struct bound to b: the fields of the
\* HPCell, and the SPProblem with its layout and quantities.
Observable(b) ==
    IF ~objs[b].live THEN Dead
    ELSE IF objs[b].kind = "HPCell" THEN objs[b].s
    ELSE SPProblem_deref(heap, objs[b].s)

CloneInit ==
    /\ CellFrozen
    /\ dt = NoDT
    /\ SPFrozen
    /\ cl = ClCall("new", "original", FALSE)
    /\ \/ \E b \in GridBBoxes, l \in StaticHazardLists :
              LET r == HPCell_new(b, l)
              IN  /\ ~r.panic
                  /\ objs = [original |-> Live("HPCell", r.self), clone |-> Dead]
                  /\ heap = << >>
       \/ LET r == SPProblem_boxed(<< >>, SPProblem_new(Instance, InitialStripWidth))
          IN  /\ objs = [original |-> Live("SPProblem", r.self), clone |-> Dead]
              /\ heap = r.heap

\* let clone = original.clone();
Clone ==
    /\ ~cl.panic
    /\ ~objs["clone"].live
    /\ \/ /\ objs["original"].kind = "HPCell"
          /\ objs' = [objs EXCEPT !["clone"] =
                          Live("HPCell", HPCell_clone(objs["original"].s))]
          /\ UNCHANGED heap
       \/ /\ objs["original"].kind = "SPProblem"
          /\ LET r == SPProblem_clone(heap, objs["original"].s)
             IN  /\ objs' = [objs EXCEPT !["clone"] = Live("SPProblem", r.self)]
                 /\ heap' = r.heap
    /\ cl' = ClCall("clone", "original", FALSE)
    /\ UNCHANGED << hp_vars, dt, sp_vars >>

\* The HPCell bound to b is left as `r.self` by the call `op`.
CellCall(b, op, r) ==
    /\ objs' = [objs EXCEPT ![b] = Live("HPCell", r.self)]
    /\ cl' = ClCall(op, b, r.panic)
    /\ UNCHANGED << heap, hp_vars, dt, sp_vars >>

CloneRegisterHazard(b, h) ==
    /\ ~cl.panic
    /\ objs[b].live /\ objs[b].kind = "HPCell"
    /\ CellCall(b, "register_hazard", register_hazard(objs[b].s, h))

CloneRegisterHazards(b, it) ==
    /\ ~cl.panic
    /\ objs[b].live /\ objs[b].kind = "HPCell"
    /\ CellCall(b, "register_hazards", register_hazards(objs[b].s, it))

CloneDeregisterHazards(b, d, it) ==
    /\ ~cl.panic
    /\ objs[b].live /\ objs[b].kind = "HPCell"
    /\ CellCall(b, "deregister_hazards", deregister_hazards(objs[b].s, d, it))

\* The SPProblem bound to b is left as `r.self` by the call `op`.
ProblemCall(b, op, r, panic) ==
    /\ LET w == SPProblem_assign(heap, objs[b].s, r.self)
       IN  /\ objs' = [objs EXCEPT ![b] = Live("SPProblem", w.self)]
           /\ heap' = w.heap
    /\ cl' = ClCall(op, b, panic)
    /\ UNCHANGED << hp_vars, dt, sp_vars >>

ClonePlaceItem(b, i_opt) ==
    /\ ~cl.panic
    /\ objs[b].live /\ objs[b].kind = "SPProblem"
    /\ LET self == SPProblem_deref(heap, objs[b].s)
       IN  /\ Len(self.layout.placed_items) < MaxPlaced
           /\ LET r == place_item(self, i_opt)
              IN  ProblemCall(b, "place_item", r, r.panic)

CloneRemoveItem(b, pi_uid) ==
    /\ ~cl.panic
    /\ objs[b].live /\ objs[b].kind = "SPProblem"
    /\ LET r == remove_item(SPProblem_deref(heap, objs[b].s), Existing0, pi_uid)
       IN  ProblemCall(b, "remove_item", r, r.panic)

CloneModifyStripWidth(b, new_width) ==
    /\ ~cl.panic
    /\ objs[b].live /\ objs[b].kind = "SPProblem"
    /\ LET self == SPProblem_deref(heap, objs[b].s)
       IN  /\ self.layout.id < MaxLayoutId
           /\ ProblemCall(b, "modify_strip_width",
                          modify_strip_width(self, new_width), FALSE)

CloneNext ==
    \/ Clone
    \/ \E b \in Bindings, h \in Hazards : CloneRegisterHazard(b, h)
    \/ \E b \in Bindings, it \in Iterators : CloneRegisterHazards(b, it)
    \/ \E b \in Bindings, d \in DeregisterSets, it \in Remainings :
          CloneDeregisterHazards(b, d, it)
    \/ \E b \in Bindings, i_opt \in PlacingOptions : ClonePlaceItem(b, i_opt)
    \/ \E b \in Bindings, pi_uid \in PlacedItemUIDs : CloneRemoveItem(b, pi_uid)
    \/ \E b \in Bindings, new_width \in StripWidths : CloneModifyStripWidth(b, new_width)

SpecClone == CloneInit /\ [][CloneNext]_vars

-----------------------------------------------------------------------------
(* Properties.  They are stated over the call record `last`, with the      *)
(* proximities recomputed from the geometry as sets rather than through    *)
(* the cell's own functions.                                               *)

\* The least element of a non-empty set of proximities.
SetMin(S) == CHOOSE p \in S : \A q \in S : Proximity_le(p, q)

\* Proximity of a point to the border of the closest pole of entity e.
PoleProx(c, e) ==
    LET ps == surrogate(e).poles
    IN  SetMin({ LET pd == Circle_distance_from_border(ps[i], c)
                 IN  Proximity_new(pd.pos, pd.dist) : i \in 1..Len(ps) })

\* Proximity of a point to the border of the poles' bounding circle of e.
BoundingProx(c, e) ==
    LET pd == Circle_distance_from_border(surrogate(e).poles_bounding_circle, c)
    IN  Proximity_new(pd.pos, pd.dist)

\* Every pole of e lies inside the poles' bounding circle of e.
PolesInsideBoundingCircle(e) ==
    LET sg == surrogate(e)
    IN  \A i \in 1..Len(sg.poles) :
            Point_distance(sg.poles[i].center, sg.poles_bounding_circle.center)
                + sg.poles[i].radius <= sg.poles_bounding_circle.radius

Returned(op) == pc = "returned" /\ last.op = op

\* The cell's cached proximity is the least of the static one and those of
\* the registered entities (consistency of `reg` with the cell).
ReflectsReg ==
    pc # "panicked" =>
        uni_haz_prox[1] = SetMin({static_uni_haz_prox[1]}
                                 \cup {PoleProx(centroid, e) : e \in reg})

\* C1: in every state reachable from HPCell::new by register_hazard,
\* register_hazards and deregister_hazards calls,
\* uni_haz_prox.0 <= static_uni_haz_prox.0 in the Proximity order.
C1_UniAtMostStatic ==
    Proximity_le(uni_haz_prox[1], static_uni_haz_prox[1])

\* A deregistration that re-registered a hazard strictly closer than the
\* static baseline.
C1_Witness ==
    /\ Returned("deregister_hazards")
    /\ last.ret = Affected
    /\ Proximity_lt(uni_haz_prox[1], static_uni_haz_prox[1])

\* C2: once a hazard H that was not yet registered has been registered on a
\* cell whose state came from registering the set R, the call
\* deregister_hazards({H.entity}, R) restores uni_haz_prox (proximity and
\* entity) to its value before H was registered.
C2_RoundTrip ==
    ( /\ Returned("deregister_hazards")
      /\ prev.set
      /\ last.dereg = {prev.haz.entity}
      /\ prev.active
      /\ ActiveEntities(last.iter) = prev.reg
      /\ Len(last.iter) = Cardinality(prev.reg) )
    => uni_haz_prox = prev.uni

\* The proximity part of the round trip.
C2_RoundTripProximity ==
    ( /\ Returned("deregister_hazards")
      /\ prev.set
      /\ last.dereg = {prev.haz.entity}
      /\ prev.active
      /\ ActiveEntities(last.iter) = prev.reg
      /\ Len(last.iter) = Cardinality(prev.reg) )
    => uni_haz_prox[1] = prev.uni[1]

\* C3: register_hazard(H) for an Interior-presence hazard, with curr the
\* proximity stored before the call and p the least proximity of the
\* centroid to a pole of H: p < curr stores (p, H.entity) and returns
\* Affected; otherwise p.|d| > curr.|d| + 2*radius returns Boundary;
\* otherwise the call returns Unaffected.
C3_RegisterHazard ==
    ( /\ pc # "idle"
      /\ last.op = "register_hazard"
      /\ presence(last.haz.entity) = Interior )
    => LET curr == last.pre.uni_haz_prox[1]
           p == PoleProx(last.pre.centroid, last.haz.entity)
       IN  /\ pc = "returned"
           /\ IF Proximity_lt(p, curr)
              THEN /\ uni_haz_prox = << p, last.haz.entity >>
                   /\ last.ret = Affected
              ELSE IF p.distance_from_border
                         > curr.distance_from_border + 2 * last.pre.radius
                   THEN last.ret = Boundary
                   ELSE last.ret = Unaffected

\* register_hazard has returned Boundary.
C3_Witness ==
    /\ Returned("register_hazard")
    /\ last.ret = Boundary
    /\ presence(last.haz.entity) = Interior

\* register_hazard called on each hazard of a sequence in turn.
RECURSIVE RegisterEach(_, _, _)
RegisterEach(self, hs, i) ==
    IF i > Len(hs) THEN self
    ELSE RegisterEach(register_hazard(self, hs[i]).self, hs, i + 1)

\* C4: when every hazard's poles lie inside its bounding circle,
\* register_hazards leaves the proximity that calling register_hazard on
\* every active hazard leaves (the least of the previous proximity and the
\* hazards' pole proximities); the hazards left unprocessed all have a
\* bounding-circle proximity above the final one and at least that of every
\* processed hazard, and none of them is closer than the final value.
C4_EarlyTermination ==
    ( /\ Returned("register_hazards")
      /\ \A e \in ActiveEntities(last.iter) :
            presence(e) = Interior /\ PolesInsideBoundingCircle(e) )
    => LET c == last.pre.centroid
           act == SelectSeq(last.iter, is_active)
           done == ActiveEntities(last.iter) \ last.left
       IN  /\ uni_haz_prox[1] = RegisterEach(last.pre, act, 1).uni_haz_prox[1]
           /\ uni_haz_prox[1] =
                SetMin({last.pre.uni_haz_prox[1]}
                       \cup {PoleProx(c, e) : e \in ActiveEntities(last.iter)})
           /\ \A e \in last.left :
                /\ Proximity_lt(uni_haz_prox[1], BoundingProx(c, e))
                /\ ~Proximity_lt(PoleProx(c, e), uni_haz_prox[1])
                /\ \A f \in done : Proximity_le(BoundingProx(c, f), BoundingProx(c, e))

\* register_hazards changed the cell and then broke off before the end.
C4_Witness ==
    /\ Returned("register_hazards")
    /\ last.left # {}
    /\ uni_haz_prox # last.pre.uni_haz_prox
    /\ \A e \in ActiveEntities(last.iter) :
          presence(e) = Interior /\ PolesInsideBoundingCircle(e)

\* C5: deregister_hazards(D, R) that returns: when the stored entity is in
\* D the cell is the one obtained by resetting uni_haz_prox to
\* static_uni_haz_prox and running register_hazards over R, and the call
\* returns Affected; otherwise it returns Unaffected and the cell is
\* unchanged.
C5_DeregisterHazards ==
    Returned("deregister_hazards") =>
        IF last.pre.uni_haz_prox[2] \in last.dereg
        THEN /\ last.ret = Affected
             /\ Self = register_hazards(
                          [last.pre EXCEPT
                              !.uni_haz_prox = last.pre.static_uni_haz_prox],
                          last.iter).self
             /\ uni_haz_prox[1] =
                  SetMin({static_uni_haz_prox[1]}
                         \cup {PoleProx(centroid, e) : e \in ActiveEntities(last.iter)})
        ELSE /\ last.ret = Unaffected
             /\ Self = last.pre

\* A deregistration that dropped the stored hazard and re-registered
\* another one from R.
C5_Witness ==
    /\ Returned("deregister_hazards")
    /\ last.ret = Affected
    /\ last.pre.uni_haz_prox[2] \in ItemEntities
    /\ uni_haz_prox # static_uni_haz_prox
    /\ uni_haz_prox # last.pre.uni_haz_prox

\* The grid cell next to b.
NeighbourBBox(b) == CHOOSE n \in GridBBoxes : n # b

\* register_hazard called for each hazard of a set.
RECURSIVE RegisterAll(_, _)
RegisterAll(self, hs) ==
    IF hs = {} THEN self
    ELSE LET h == CHOOSE x \in hs : TRUE
         IN  RegisterAll(register_hazard(self, h).self, hs \ {h})

\* The neighbouring cell, built from the same static hazards and with the
\* hazards of the entities es registered.
NeighbourCell(es) ==
    RegisterAll(HPCell_new(NeighbourBBox(bbox), built_from).self,
                {Hazard(e, TRUE) : e \in es})

\* C6: when register_hazard(H) returns Boundary for a cell, it does not
\* return Affected for the neighbouring cell of the same size that reflects
\* the same previously registered hazards.
C6_BoundarySound ==
    ( /\ Returned("register_hazard")
      /\ last.ret = Boundary
      /\ last.haz.active
      /\ prev.set )
    => register_hazard(NeighbourCell(prev.reg), last.haz).ret # Affected

\* The same for a neighbour no closer to H than the Boundary cell is.
C6_BoundarySoundBeyond ==
    ( /\ Returned("register_hazard")
      /\ last.ret = Boundary
      /\ last.haz.active
      /\ prev.set
      /\ Proximity_le(PoleProx(centroid, last.haz.entity),
                      PoleProx(NeighbourCell(prev.reg).centroid, last.haz.entity)) )
    => register_hazard(NeighbourCell(prev.reg), last.haz).ret # Affected

\* C7: register_hazard of an Exterior-presence hazard aborts, and
\* register_hazards of an iterator with an active Exterior-presence hazard
\* aborts with the cell unchanged and no hazard of the iterator processed.
C7_ExteriorFailsFast ==
    /\ ( pc # "idle" /\ last.op = "register_hazard"
         /\ presence(last.haz.entity) = Exterior )
       => ( pc = "panicked" /\ Self = last.pre )
    /\ ( pc # "idle" /\ last.op = "register_hazards"
         /\ \E e \in ActiveEntities(last.iter) : presence(e) = Exterior )
       => ( /\ pc = "panicked"
            /\ Self = last.pre
            /\ last.left = ActiveEntities(last.iter) )

\* register_hazards aborted on an iterator that also held an active item
\* closer than the stored hazard.
C7_Witness ==
    /\ pc = "panicked"
    /\ last.op = "register_hazards"
    /\ \E e \in ActiveEntities(last.iter) :
          /\ presence(e) = Interior
          /\ Proximity_lt(PoleProx(centroid, e), uni_haz_prox[1])

\* C8: after construction no call changes qz_haz_prox, static_uni_haz_prox,
\* bbox, centroid or radius.
C8_Frame ==
    [][ last'.op # "new" =>
          UNCHANGED << qz_haz_prox, static_uni_haz_prox, bbox, centroid, radius >> ]_vars

\* A deregistration changed uni_haz_prox.
C8_Witness ==
    /\ Returned("deregister_hazards")
    /\ uni_haz_prox # last.pre.uni_haz_prox
    /\ static_uni_haz_prox = last.pre.static_uni_haz_prox

\* Proximity of a static hazard: Interior exactly when the centroid's
\* position relative to the shape is the entity's presence.
StaticProx(c, h) ==
    LET pd == Polygon_distance_from_border(shape(h.entity), c)
    IN  Proximity_new(IF pd.pos = presence(h.entity) THEN Interior ELSE Exterior,
                      pd.dist)

SeqElems(sq) == {sq[i] : i \in 1..Len(sq)}

\* C9: HPCell::new yields static_uni_haz_prox = the least proximity over
\* the BinOuter and BinHole hazards (the sentinel tagged BinOuter when there
\* are none), qz_haz_prox[q] = the least proximity over the quality-zone
\* hazards of quality q (the sentinel when there are none) and
\* uni_haz_prox = static_uni_haz_prox; a PlacedItem among the static
\* hazards aborts the construction.
C9_New ==
    ( pc # "idle" /\ last.op = "new" )
    => LET hs == SeqElems(last.iter)
           bin == {h \in hs : h.entity.kind \in {"BinOuter", "BinHole"}}
           qz(q) == {h \in hs : h.entity.kind = "QualityZoneInferior"
                                 /\ h.entity.quality = q}
       IN  IF \E h \in hs : h.entity.kind = "PlacedItem"
           THEN pc = "panicked"
           ELSE /\ pc = "returned"
                /\ static_uni_haz_prox[1] =
                     SetMin({Proximity_default} \cup {StaticProx(centroid, h) : h \in bin})
                /\ \/ /\ static_uni_haz_prox[2] = BinOuter
                      /\ static_uni_haz_prox[1] = Proximity_default
                   \/ \E h \in bin :
                        /\ static_uni_haz_prox[2] = h.entity
                        /\ static_uni_haz_prox[1] = StaticProx(centroid, h)
                /\ \A q \in 0..(N_QUALITIES - 1) :
                     qz_haz_prox[q] =
                       SetMin({Proximity_default}
                              \cup {StaticProx(centroid, h) : h \in qz(q)})
                /\ uni_haz_prox = static_uni_haz_prox

\* A cell built inside a bin hole and inside a quality zone, with several
\* zones of the same quality.
C9_Witness ==
    /\ Returned("new")
    /\ static_uni_haz_prox[1].position = Interior
    /\ static_uni_haz_prox[2].kind = "BinHole"
    /\ \E q \in 0..(N_QUALITIES - 1) : qz_haz_prox[q].position = Interior
    /\ Len(last.iter) > 3

\* C10: value_loss(new_prox) leaves the cell unchanged; its update is the one
\* register_hazard returns for a hazard whose pole proximity is new_prox;
\* it returns Some(value() - calculate_value(new_prox, qz_haz_prox))
\* exactly when the update is Affected, and None otherwise.
C10_ValueLoss ==
    Returned("value_loss") =>
        /\ Self = last.pre
        /\ \A h \in ActiveItemHazards :
              PoleProx(centroid, h.entity) = last.prox
                  => last.ret = register_hazard(last.pre, h).ret
        /\ IF Proximity_lt(last.prox, last.pre.uni_haz_prox[1])
           THEN /\ last.ret = Affected
                /\ last.val = SomeF64(F64_sub(value(last.pre),
                                  calculate_value(last.prox, last.pre.qz_haz_prox)))
           ELSE /\ last.ret # Affected
                /\ last.val = NoneF64

\* value_loss returned a loss for the proximity of one of the items.
C10_Witness ==
    /\ Returned("value_loss")
    /\ last.val.some
    /\ last.val.v.k = "fin"
    /\ last.val.v.n > 0
    /\ \E h \in ActiveItemHazards : PoleProx(centroid, h.entity) = last.prox

\* A Boundary cell whose neighbour is no closer to the hazard.
C6_BeyondWitness ==
    /\ Returned("register_hazard")
    /\ last.ret = Boundary
    /\ last.haz.active
    /\ prev.set
    /\ Proximity_le(PoleProx(centroid, last.haz.entity),
                    PoleProx(NeighbourCell(prev.reg).centroid, last.haz.entity))


-----------------------------------------------------------------------------
\* The quality indices whose zone proximity is Interior in the cell c.
InteriorQualities(c) ==
    {q \in 0..(N_QUALITIES - 1) : c.qz_haz_prox[q].position = Interior}

\* C11: value() is the square of uni_haz_prox's distance multiplied by
\* q / N_QUALITIES for the smallest quality q whose zone proximity is
\* Interior, and by 1 when there is none (values are kept N_QUALITIES-fold;
\* an infinite distance gives +infinity, or NaN when the factor is 0).
C11_Value ==
    Returned("value") =>
        LET c == last.pre
            d == c.uni_haz_prox[1].distance_from_border
            Q == InteriorQualities(c)
            Expected(num) ==
                IF d < F64_INF THEN F64("fin", d * d * num)
                ELSE IF num = 0 THEN F64("nan", 0) ELSE F64("inf", 0)
        IN  /\ last.val.some
            /\ Q = {} => last.val.v = Expected(N_QUALITIES)
            /\ \A q \in Q : (\A q2 \in Q : q <= q2) => last.val.v = Expected(q)

\* value() was called on a cell whose centroid lies in zones of two
\* qualities and whose proximity is finite and not zero.
C11_Witness ==
    /\ Returned("value")
    /\ Cardinality(InteriorQualities(last.pre)) >= 2
    /\ last.pre.uni_haz_prox[1].distance_from_border \in 1..(F64_INF - 1)


-----------------------------------------------------------------------------
\* The f64 components of a DTransformation value.
Components(d) ==
    {DTransformation_rotation(d)}
    \cup {DTransformation_translation(d)[i] : i \in 1..2}

\* C14: no DTransformation value holds NaN: DTransformation::new panics
\* exactly when the rotation or a translation component is NaN and otherwise
\* holds its arguments, and DTransformation::empty() is rotation 0 with
\* translation (0, 0).
C14_NoNaN ==
    /\ (dt.op # "none" /\ ~dt.panic) =>
            \A x \in Components(dt.self) : x.k # "nan"
    /\ dt.op = "new" =>
            /\ dt.panic <=> \E x \in {dt.rotation, dt.translation[1], dt.translation[2]} :
                                x.k = "nan"
            /\ ~dt.panic => /\ dt.self.rotation = dt.rotation
                            /\ dt.self.translation = dt.translation
    /\ dt.op = "empty" =>
            /\ ~dt.panic
            /\ \A x \in Components(dt.self) : x = F64("fin", 0)

\* DTransformation::new was called with NaN as translation.1 only.
C14_Witness ==
    /\ dt.op = "new"
    /\ dt.translation[2].k = "nan"
    /\ dt.rotation.k # "nan"
    /\ dt.translation[1].k # "nan"
    /\ dt.panic


-----------------------------------------------------------------------------
\* The signed distance of a proximity: negative inside, positive outside.
Signed(p) == IF p.position = Interior THEN -p.distance_from_border
             ELSE p.distance_from_border

\* C15: a register_hazard call that returns Affected has made uni_haz_prox.0
\* strictly smaller and stored the registered hazard's entity; one that
\* returns Boundary or Unaffected has left uni_haz_prox as it was, also when
\* the hazard's proximity equals the stored one.
C15_AffectedIffChanged ==
    Returned("register_hazard") =>
        LET before == last.pre.uni_haz_prox
            p == PoleProx(last.pre.centroid, last.haz.entity)
        IN  /\ last.ret \in {Affected, Boundary, Unaffected}
            /\ last.ret = Affected =>
                    /\ Signed(uni_haz_prox[1]) < Signed(before[1])
                    /\ uni_haz_prox[2] = last.haz.entity
            /\ last.ret # Affected => uni_haz_prox = before
            /\ last.ret = Affected <=> uni_haz_prox # before
            /\ p = before[1] => uni_haz_prox = before

\* register_hazard met a hazard of another entity whose proximity equals
\* the stored one.
C15_Witness ==
    /\ Returned("register_hazard")
    /\ PoleProx(last.pre.centroid, last.haz.entity) = last.pre.uni_haz_prox[1]
    /\ last.haz.entity # last.pre.uni_haz_prox[2]
    /\ last.ret = Unaffected

\* The entities of the inactive hazards of an iterator.
InactiveEntities(it) == {it[i].entity : i \in {j \in 1..Len(it) : ~it[j].active}}

\* C16: register_hazards, called directly or by deregister_hazards after the
\* reset, leaves the uni_haz_prox that the active hazards of the iterator
\* alone give, and a pair it has stored never names an inactive hazard.
C16_InactiveSkipped ==
    /\ Returned("register_hazards") =>
          LET only_active == register_hazards(last.pre, SelectSeq(last.iter, is_active))
          IN  /\ ~only_active.panic
              /\ uni_haz_prox = only_active.self.uni_haz_prox
              /\ uni_haz_prox[1] =
                    SetMin({last.pre.uni_haz_prox[1]}
                           \cup {PoleProx(last.pre.centroid, e) :
                                    e \in ActiveEntities(last.iter)})
              /\ uni_haz_prox # last.pre.uni_haz_prox =>
                    uni_haz_prox[2] \in ActiveEntities(last.iter) \ InactiveEntities(last.iter)
    /\ (Returned("deregister_hazards") /\ last.ret = Affected) =>
          /\ uni_haz_prox[1] =
                SetMin({static_uni_haz_prox[1]}
                       \cup {PoleProx(last.pre.centroid, e) :
                                e \in ActiveEntities(last.iter)})
          /\ uni_haz_prox # static_uni_haz_prox =>
                uni_haz_prox[2] \in ActiveEntities(last.iter) \ InactiveEntities(last.iter)

\* register_hazards was given an inactive hazard that is closer than
\* everything the cell ends up with, next to an active one that changed it.
C16_Witness ==
    /\ Returned("register_hazards")
    /\ uni_haz_prox # last.pre.uni_haz_prox
    /\ \E e \in InactiveEntities(last.iter) :
          /\ presence(e) = Interior
          /\ Proximity_lt(PoleProx(last.pre.centroid, e), uni_haz_prox[1])

\* deregister_hazards re-registered an iterator holding only an inactive
\* hazard that is closer than the static proximity.
C16_WitnessDeregister ==
    /\ Returned("deregister_hazards")
    /\ last.ret = Affected
    /\ \E e \in InactiveEntities(last.iter) :
          /\ presence(e) = Interior
          /\ Proximity_lt(PoleProx(last.pre.centroid, e), uni_haz_prox[1])

\* C17: when register_hazard or value_loss gets to the boundary test
\* a.|d| > b.|d| + 2 * radius (the call returned Boundary or Unaffected),
\* a and b have the same position or a is Exterior; Boundary is not
\* returned for an Interior a against an Exterior b.
C17_BoundaryTestPositions ==
    ( /\ pc = "returned"
      /\ last.op \in {"register_hazard", "value_loss"}
      /\ last.ret \in {Boundary, Unaffected} )
    => LET a == IF last.op = "value_loss" THEN last.prox
                ELSE PoleProx(last.pre.centroid, last.haz.entity)
           b == last.pre.uni_haz_prox[1]
       IN  /\ a.position = b.position \/ a.position = Exterior
           /\ last.ret = Boundary => ~(a.position = Interior /\ b.position = Exterior)
           /\ last.ret = Boundary <=>
                  a.distance_from_border > b.distance_from_border + 2 * last.pre.radius

\* value_loss returned Boundary for an Exterior proximity against an
\* Interior one.
C17_Witness ==
    /\ Returned("value_loss")
    /\ last.ret = Boundary
    /\ last.prox.position = Exterior
    /\ last.pre.uni_haz_prox[1].position = Interior

\* register_hazard returned Boundary.
C17_WitnessRegister ==
    /\ Returned("register_hazard")
    /\ last.ret = Boundary

\* C20: whenever value_loss returns Some(v), v >= 0.
C20_ValueLossNonNegative ==
    (Returned("value_loss") /\ last.val.some) =>
        \/ last.val.v.k = "inf"
        \/ last.val.v.k = "fin" /\ last.val.v.n >= 0

\* When value_loss returns Some(v) and both the new and the stored proximity
\* are Exterior, v >= 0.
C20_ValueLossNonNegativeExterior ==
    ( /\ Returned("value_loss")
      /\ last.val.some
      /\ last.prox.position = Exterior
      /\ last.pre.uni_haz_prox[1].position = Exterior
      /\ 0 \notin InteriorQualities(last.pre) ) =>
        \/ last.val.v.k = "inf"
        \/ last.val.v.k = "fin" /\ last.val.v.n >= 0


-----------------------------------------------------------------------------
(* Properties of the SPProblem.                                            *)

\* The step is a modify_strip_width or fit_strip_width call: the layout is
\* replaced by one with the next id.
RebuildStep ==
    /\ sp_last'.op \in {"modify_strip_width", "fit_strip_width"}
    /\ sp'.layout.id = sp.layout.id + 1

\* The three courses the loop of modify_strip_width can take for one item.
SkippedBySurrogate == << Event("surrogate_collides", TRUE) >>
SkippedByShape == << Event("surrogate_collides", FALSE), Event("shape_collides", TRUE) >>
Replaced == << Event("surrogate_collides", FALSE), Event("shape_collides", FALSE),
               Event("place_item", FALSE) >>

\* C12: modify_strip_width goes through the previously placed items in
\* order; an item is placed again only after surrogate_collides and then
\* shape_collides returned false for it, and then it is appended to the new
\* layout and counted; when either test returns true nothing else is called
\* for the item and the layout and missing_item_qtys stay as they were.
C12_ReplaceAfterBothTests ==
    [][RebuildStep =>
        LET log == sp_last'.log
        IN  /\ Len(log) = Len(sp.layout.placed_items)
            /\ \A k \in 1..Len(log) :
                 LET e == log[k]
                 IN  /\ e.p_uid = sp.layout.placed_items[k]
                     /\ e.events \in {SkippedBySurrogate, SkippedByShape, Replaced}
                     /\ e.before = IF k = 1
                                   THEN [placed_items |-> << >>,
                                         missing_item_qtys |->
                                            item_qtys(Instance, Len(Instance.items))]
                                   ELSE log[k - 1].after
                     /\ e.events # Replaced => e.after = e.before
                     /\ e.events = Replaced =>
                          /\ e.after.placed_items = Append(e.before.placed_items, e.p_uid)
                          /\ e.after.missing_item_qtys =
                               [e.before.missing_item_qtys EXCEPT
                                   ![e.p_uid.item_id + 1] = @ - 1]
            /\ Len(log) > 0 => Digest(sp') = log[Len(log)].after
            /\ Len(log) = 0 => sp'.layout.placed_items = << >>
    ]_vars

\* modify_strip_width placed one item again and skipped another after the
\* surrogate test had let it pass.
C12_Witness ==
    /\ sp_last.op = "modify_strip_width"
    /\ \E k \in 1..Len(sp_last.log) : sp_last.log[k].events = SkippedByShape
    /\ \E k \in 1..Len(sp_last.log) : sp_last.log[k].events = Replaced

\* modify_strip_width skipped an item on the surrogate test.
C12_WitnessSurrogate ==
    /\ sp_last.op = "modify_strip_width"
    /\ \E k \in 1..Len(sp_last.log) : sp_last.log[k].events = SkippedBySurrogate

\* No placed item reaches outside the strip or into another placed item.
CollisionFree(self) ==
    LET n == Len(self.layout.placed_items)
        at(k) == placed_shape(self.instance, self.layout.placed_items[k])
    IN  /\ \A k \in 1..n : rect_strictly_inside(at(k), self.layout.bin.outer)
        /\ \A k \in 1..n, j \in 1..n : k # j => ~rects_overlap(at(k), at(j))

\* C18: fit_strip_width keeps every placed item: the assert_eq at its end
\* does not fail and the layout holds as many items as before.
C18_FitKeepsItems ==
    sp_last.op = "fit_strip_width" =>
        /\ ~sp_last.panic
        /\ Len(sp.layout.placed_items) = Len(sp_last.log)

\* When no placed item collides with the strip or with another placed item,
\* fit_strip_width keeps every placed item, in the same order, in a strip of
\* the width of the largest x_max plus the margin.
C18_FitKeepsItemsCollisionFree ==
    [][(RebuildStep /\ sp_last'.op = "fit_strip_width" /\ CollisionFree(sp)) =>
        /\ ~sp_last'.panic
        /\ sp'.layout.placed_items = sp.layout.placed_items
        /\ \A k \in 1..Len(sp.layout.placed_items) :
              placed_shape(Instance, sp.layout.placed_items[k]).x_max
                  + F32_EPSILON_SQRT <= sp'.strip_width
        /\ sp.layout.placed_items # << >> =>
              \E k \in 1..Len(sp.layout.placed_items) :
                  placed_shape(Instance, sp.layout.placed_items[k]).x_max
                      + F32_EPSILON_SQRT = sp'.strip_width
    ]_vars

\* fit_strip_width shrank a strip holding two items and kept both.
C18_Witness ==
    /\ sp_last.op = "fit_strip_width"
    /\ ~sp_last.panic
    /\ Len(sp.layout.placed_items) = 2
    /\ sp.strip_width < InitialStripWidth

\* The number of items of type id placed in the layout.
PlacedCount(self, id) ==
    Cardinality({k \in 1..Len(self.layout.placed_items) :
                    self.layout.placed_items[k].item_id = id})

\* C19: after any sequence of place_item, remove_item, modify_strip_width,
\* fit_strip_width, create_solution and restore_to_solution calls that has
\* not panicked, for every item type i missing_item_qtys[i] is
\* item_qty(i) minus the number of items of type i in the layout, and
\* included_item_qtys()[i] is that number.
C19_Quantities ==
    ~sp_last.panic =>
        \A id \in 0..(Len(Instance.items) - 1) :
            /\ sp.missing_item_qtys[id + 1] = item_qty(Instance, id) - PlacedCount(sp, id)
            /\ included_item_qtys(sp)[id + 1] = PlacedCount(sp, id)

\* restore_to_solution brought items back into a layout built by
\* modify_strip_width.
C19_Witness ==
    /\ sp_last.op = "restore_to_solution"
    /\ ~sp_last.panic
    /\ sp.layout.id > 0
    /\ sp.layout.placed_items # << >>
    /\ solution.s.layout_snapshots[1].id # sp.layout.id

\* More items of a type are placed than the instance asks for.
C19_WitnessOverPlaced ==
    /\ ~sp_last.panic
    /\ \E id \in 0..(Len(Instance.items) - 1) : sp.missing_item_qtys[id + 1] < 0

-----------------------------------------------------------------------------
(* Properties of clones.                                                   *)

\* The calls that change the struct they are made on.
MutatingCalls == {"register_hazard", "register_hazards", "deregister_hazards",
                  "place_item", "remove_item", "modify_strip_width"}

\* C13: once an HPCell or an SPProblem is cloned, a register_hazard,
\* register_hazards or deregister_hazards call (a place_item, remove_item
\* or modify_strip_width call) on one copy, panicking or not, leaves
\* everything that can be read of the other copy as it was.
C13_CloneIndependence ==
    [][\A b \in Bindings :
          (objs["clone"].live /\ cl'.op \in MutatingCalls /\ cl'.on = b)
              => Observable(Other(b))' = Observable(Other(b))]_vars

\* C13 is exercised: after the clone, a call on one copy has made the two
\* copies differ; once for two cells, once for two problems whose layouts
\* and quantities differ.
C13_Witness ==
    /\ objs["clone"].live
    /\ objs["clone"].kind = "SPProblem"
    /\ cl.op = "place_item" /\ cl.on = "clone" /\ ~cl.panic
    /\ Observable("clone").layout # Observable("original").layout
    /\ Observable("clone").missing_item_qtys # Observable("original").missing_item_qtys

C13_WitnessCell ==
    /\ objs["clone"].live
    /\ objs["clone"].kind = "HPCell"
    /\ cl.op = "register_hazard" /\ cl.on = "original" /\ ~cl.panic
    /\ Observable("clone") # Observable("original")

-----------------------------------------------------------------------------
(* Properties of register_hazards and deregister_hazards over sets.        *)

\* The sequences that hold the elements of sq in another order.
Reorderings(sq) ==
    LET n == Len(sq)
    IN  {[i \in 1..n |-> sq[f[i]]] :
            f \in {g \in [1..n -> 1..n] : \A i, j \in 1..n : g[i] = g[j] => i = j}}

\* C21: a register_hazards call whose active hazards all have Interior
\* presence would have returned, and left the same uni_haz_prox.0, had the
\* iterator yielded the same hazards in any other order.
C21_OrderIndependence ==
    ( /\ Returned("register_hazards")
      /\ \A e \in ActiveEntities(last.iter) : presence(e) = Interior )
    => \A it \in Reorderings(last.iter) :
          LET r == register_hazards(last.pre, it)
          IN  /\ ~r.panic
              /\ r.self.uni_haz_prox[1] = uni_haz_prox[1]

\* A call with three hazards that changed the cell, where another order
\* of the same hazards would have left another entity in the cell.
C21_Witness ==
    /\ Returned("register_hazards")
    /\ Len(last.iter) = 3
    /\ \A e \in ActiveEntities(last.iter) : presence(e) = Interior
    /\ uni_haz_prox[1] # last.pre.uni_haz_prox[1]
    /\ \E it \in Reorderings(last.iter) :
          register_hazards(last.pre, it).self.uni_haz_prox[2] # uni_haz_prox[2]

\* C22: a deregister_hazards(D, R) call that returns, made when
\* uni_haz_prox.0 is the least of the static proximity and those of the
\* registered hazards and every active hazard of R is registered, leaves a
\* uni_haz_prox.0 that is not closer than the one before the call.
C22_DeregisterNotCloser ==
    [][( /\ pc = "idle" /\ pc' = "returned"
         /\ last'.op = "deregister_hazards"
         /\ ReflectsReg
         /\ ActiveEntities(last'.iter) \subseteq reg )
          => Proximity_le(uni_haz_prox[1], uni_haz_prox'[1])]_vars

\* The hazard registered last is deregistered while hazards registered
\* before it remain, and the cell falls back to a hazard farther away.
C22_Witness ==
    /\ Returned("deregister_hazards")
    /\ last.ret = Affected
    /\ prev.set
    /\ ActiveEntities(last.iter) # {}
    /\ ActiveEntities(last.iter) \subseteq (prev.reg \cup {prev.haz.entity})
    /\ uni_haz_prox[2] \in ActiveEntities(last.iter)
    /\ Proximity_lt(last.pre.uni_haz_prox[1], uni_haz_prox[1])

\* The same with nothing remaining: the cell falls back to the static
\* proximity.
C22_WitnessStatic ==
    /\ Returned("deregister_hazards")
    /\ last.ret = Affected
    /\ last.iter = << >>
    /\ uni_haz_prox = static_uni_haz_prox
    /\ Proximity_lt(last.pre.uni_haz_prox[1], uni_haz_prox[1])

-----------------------------------------------------------------------------
(* Properties of modify_strip_width.                                       *)

\* Every element of the sequence new is an element of old, no element of
\* old being taken twice.
TakenFrom(new, old) ==
    \E f \in [1..Len(new) -> 1..Len(old)] :
        /\ \A i, j \in 1..Len(new) : f[i] = f[j] => i = j
        /\ \A i \in 1..Len(new) : new[i] = old[f[i]]

\* C23: after modify_strip_width(w), strip_width is w and strip_height is
\* as before; the layout has the old id + 1 and the bin of the strip of
\* width w; the (item_id, d_transf) of every item placed in it is that of
\* an item placed in the old layout, each old placement taken at most once.
C23_ModifyStripWidth ==
    [][\A w \in StripWidths :
          SPModifyStripWidth(w) =>
              /\ sp'.strip_width = w
              /\ sp'.strip_height = sp.strip_height
              /\ sp'.layout.id = sp.layout.id + 1
              /\ sp'.layout.bin = Bin_from_strip(sp.layout.id + 1, w, sp.strip_height)
              /\ TakenFrom(sp'.layout.placed_items, sp.layout.placed_items)
              /\ sp'.instance = sp.instance
    ]_vars

\* modify_strip_width narrowed the strip; of two placed items one is placed
\* in the new layout and one is not.
C23_Witness ==
    /\ sp_last.op = "modify_strip_width"
    /\ sp.strip_width < InitialStripWidth
    /\ sp.layout.id = 1
    /\ Len(sp_last.log) = 2
    /\ Len(sp.layout.placed_items) = 1

\* modify_strip_width on a layout that holds the same placement twice: the
\* first is placed again, the second is not.
C23_WitnessTwice ==
    /\ sp_last.op = "modify_strip_width"
    /\ Len(sp_last.log) = 2
    /\ sp_last.log[1].p_uid = sp_last.log[2].p_uid
    /\ sp.layout.placed_items = << sp_last.log[1].p_uid >>

====
